---- MODULE Spec2Model ----
(***************************************************************************)
(* Bank-statement extraction and reconciliation (actual-budget-client).    *)
(*                                                                         *)
(* Money is counted in paise (hundredths of a rupee): every amount the     *)
(* parsers read has exactly two decimals, so "450.00" is 45000.  A page is *)
(* the list of its lines (page_text.split('\n')); a line is a record       *)
(*   k : what the stripped line is  ("date", "text", "amt", "BF", "CF",    *)
(*       "Total", "TotalAmt", "empty"),                                    *)
(*   d : its text (the DD-MM-YYYY date of a date line, the fragment of a   *)
(*       description line),                                                *)
(*   a : the decimal tokens re.findall(r'([\d,]+\.\d{2})') finds in it,    *)
(*       each [v : paise, sep : written with thousands separators].        *)
(* Indices i, j, k, m are the 0-based indices of the code.                 *)
(***************************************************************************)
EXTENDS Integers, Sequences, FiniteSets, TLC

VARIABLES
    prog,               \* which routine runs: "detailed", "ocr", "verify", "import",
                        \* "import_v2", "summary", "text", "batch"
    pc,                 \* position in the routine
    pages_text,         \* the document: a sequence of pages, each a sequence of lines
    starting_balance,   \* parse_individual_transactions' argument / extract_all's local
    p,                  \* page_num (1-based, as enumerate(pages_text, 1))
    i,                  \* index of the line the scan is at
    j,                  \* index of the look-ahead
    amounts,            \* amounts / amounts_found of the open candidate
    description_parts,  \* description fragments of the open candidate
    current_balance,    \* parse_individual_transactions' running balance
    transactions,       \* extract_transactions_from_page_text's list for the page
    all_transactions,   \* the list the statement assembler returns
    result,             \* what the routine returned ([kind |-> "none"] before)
    summary,            \* the StatementSummary handed to the verifier / importer
    tolerance,          \* verify_pdf_extraction_is_correct's tolerance
    dry_run,            \* import_detailed_transactions' dry_run
    created,            \* import_detailed_transactions' transactions_created
    report,             \* what import_detailed_transactions printed about the balance
    ledger,             \* the budget file: session, account, categories, records
    doc,                \* the pymupdf document extract_text_from_pdf works on
    password,           \* extract_text_from_pdf's password
    caller,             \* the routine that called the running one ("none" at top level)
    history,            \* what the earlier calls of the running routine returned
    page_summary,       \* extract_all_transactions_from_pdf's page_summary
    success_count,      \* import_all_pdfs' success_count
    statement           \* how many statements of PDF_ORDER import_all_pdfs is done with

vars == <<prog, pc, pages_text, starting_balance, p, i, j, amounts,
          description_parts, current_balance, transactions, all_transactions,
          result, summary, tolerance, dry_run, created, report, ledger,
          doc, password, caller, history, page_summary, success_count,
          statement>>

(* the document handle, the credential and the call being served *)
callVars == <<doc, password, caller, history, page_summary, success_count,
              statement>>

(* what the text parsers never touch *)
importVars == <<summary, tolerance, dry_run, created, report, ledger,
                doc, password, caller, history, page_summary, success_count,
                statement>>

(* what the statement assembler never touches when a page is done *)
assemblerVars == <<summary, tolerance, dry_run, created, report, ledger,
                   doc, password, caller, history, success_count, statement>>

(***************************************************************************)
(* Bounds of the model.                                                    *)
(***************************************************************************)
MaxFrags == 4

(***************************************************************************)
(* Lines and documents.                                                    *)
(***************************************************************************)
Tok(v, sep) == [v |-> v, sep |-> sep]

DateLine == [k |-> "date", d |-> "01-08-2025", a |-> <<>>]
TextLine == [k |-> "text", d |-> "UPI/John/abc/lunch/BANK", a |-> <<>>]
AmtLine(toks) == [k |-> "amt", d |-> "", a |-> toks]
BFLine == [k |-> "BF", d |-> "", a |-> <<>>]
CFLine == [k |-> "CF", d |-> "", a |-> <<>>]
TotalLine == [k |-> "Total", d |-> "", a |-> <<>>]
TotalAmtLine(toks) == [k |-> "TotalAmt", d |-> "", a |-> toks]
EmptyLine == [k |-> "empty", d |-> "", a |-> <<>>]

(* The decimal tokens the documents are written with. *)
T450 == Tok(45000, FALSE)        \* "450.00"
T50000 == Tok(5000000, TRUE)     \* "50,000.00"
T50450 == Tok(5045000, TRUE)     \* "50,450.00"

(* A document is assembled from at most MaxFrags fragments: single lines, *)
(* one complete four-line record (spec.md, scenario A), and page breaks.  *)
(* A bare 'Total:' line is left out of the fragments: it acts as 'C/F'    *)
(* does in parse_individual_transactions and as 'B/F' does in             *)
(* extract_transactions_from_page_text.                                   *)
Frag(ls) == [brk |-> FALSE, ls |-> ls]
PageBreak == [brk |-> TRUE, ls |-> <<>>]

Fragments ==
    { Frag(<<DateLine>>), Frag(<<TextLine>>),
      Frag(<<AmtLine(<<T450>>)>>), Frag(<<AmtLine(<<T50000>>)>>),
      Frag(<<AmtLine(<<T450, T50450>>)>>),
      Frag(<<BFLine>>), Frag(<<CFLine>>), Frag(<<EmptyLine>>),
      Frag(<<TotalAmtLine(<<T450, T450, T50000>>)>>),
      Frag(<<DateLine, TextLine, AmtLine(<<T450>>), AmtLine(<<T50000>>)>>),
      PageBreak }

RECURSIVE SplitPages(_, _, _)
(* The pages of a fragment sequence: acc holds the pages already closed,  *)
(* cur the lines of the page being filled.  A page without text is the    *)
(* single empty line ''.split('\n') gives.                                *)
SplitPages(fs, acc, cur) ==
    LET close(c) == IF c = <<>> THEN <<EmptyLine>> ELSE c
    IN  IF fs = <<>> THEN Append(acc, close(cur))
        ELSE IF Head(fs).brk THEN SplitPages(Tail(fs), Append(acc, close(cur)), <<>>)
        ELSE SplitPages(Tail(fs), acc, cur \o Head(fs).ls)

(* pages is the text of some document of at most MaxFrags fragments *)
IsDocument(pages) ==
    \E n \in 1..MaxFrags : \E fs \in [1..n -> Fragments] : pages = SplitPages(fs, <<>>, <<>>)

(* The opening balances parse_individual_transactions is called with. *)
StartBalances == {0, 4955000, 5045000}

(***************************************************************************)
(* Helpers shared by the two text parsers.                                 *)
(***************************************************************************)
Last(s) == s[Len(s)]
Abs(x) == IF x < 0 THEN -x ELSE x
Min(a, b) == IF a < b THEN a ELSE b
Max(a, b) == IF a > b THEN a ELSE b

(* lines[n] for a 0-based n *)
LineAt(lines, n) == lines[n + 1]

(* date_pattern.match(line) *)
IsDateLine(line) == line.k = "date"

(* 'Total:' in line *)
ContainsTotal(line) == line.k \in {"Total", "TotalAmt"}

(* re.findall(r'([\d,]+\.\d{2})', line), each float(amt.replace(',', '')) *)
FoundAmounts(line) == [n \in 1..Len(line.a) |-> line.a[n].v]

(* nothing returned yet *)
NoResult == [kind |-> "none"]

(* no summary in play *)
NoSummary == [starting_balance |-> 0, total_deposits |-> 0,
              total_withdrawals |-> 0, final_balance |-> 0]

(* page_summary before line 296 assigns it *)
NoPageSummary == [kind |-> "none"]

(* no document in play *)
NoDoc == [handle |-> "none"]

(* password=None *)
NoPassword == "None"

(* no budget file in play *)
NoLedger == [session |-> "closed", account |-> FALSE, categories |-> {},
             pending |-> <<>>, committed |-> <<>>, commits |-> 0]

(* tolerance=1.0, in paise *)
Tolerance == 100

RECURSIVE SumDeposits(_)
(* sum(t['deposit'] for t in txns) *)
SumDeposits(txns) ==
    IF txns = <<>> THEN 0 ELSE Head(txns).deposit + SumDeposits(Tail(txns))

RECURSIVE SumWithdrawals(_)
(* sum(t['withdrawal'] for t in txns) *)
SumWithdrawals(txns) ==
    IF txns = <<>> THEN 0 ELSE Head(txns).withdrawal + SumWithdrawals(Tail(txns))

(* ' '.join(parts[:n]) or the placeholder 'Transaction' *)
Description(parts, n) ==
    IF parts = <<>> THEN <<"Transaction">> ELSE SubSeq(parts, 1, Min(n, Len(parts)))

(***************************************************************************)
(* parse_individual_transactions (import_detailed.py)                      *)
(***************************************************************************)
LookWindow == 10

(* PI_Classify with the comparison turned round *)
M_PI_Classify_Swapped(new_balance, prev_balance) ==
    LET balance_change == new_balance - prev_balance
    IN  IF balance_change < 0
        THEN [deposit |-> Abs(balance_change), withdrawal |-> 0]
        ELSE [deposit |-> 0, withdrawal |-> balance_change]

(* PI_Classify with the abs() of line 89 forgotten *)
M_PI_Classify_NoAbs(new_balance, prev_balance) ==
    LET balance_change == new_balance - prev_balance
    IN  IF balance_change > 0
        THEN [deposit |-> balance_change, withdrawal |-> 0]
        ELSE [deposit |-> 0, withdrawal |-> balance_change]

(* lines 84-89: the split of a balance change into deposit and withdrawal *)
PI_Classify(new_balance, prev_balance) ==
    LET balance_change == new_balance - prev_balance
    IN  IF balance_change > 0
        THEN [deposit |-> balance_change, withdrawal |-> 0]
        ELSE [deposit |-> 0, withdrawal |-> Abs(balance_change)]

(* PI_IsSectionMarker without the 'Total:' test of line 51 *)
M_PI_IsSectionMarker_NoTotal(lines, n) ==
    /\ n + 1 < Len(lines)
    /\ LineAt(lines, n + 1).k \in {"BF", "CF"}

(* lines 49-51: the line after the date line is B/F, C/F or holds 'Total:' *)
PI_IsSectionMarker(lines, n) ==
    /\ n + 1 < Len(lines)
    /\ \/ LineAt(lines, n + 1).k \in {"BF", "CF"}
       \/ ContainsTotal(LineAt(lines, n + 1))

(* PI_IsTerminator without the date test of line 63 *)
M_PI_IsTerminator_NoDate(line) == line.k \in {"Total", "BF", "CF"}

(* line 63: the look-ahead stops at this line *)
PI_IsTerminator(line) == IsDateLine(line) \/ line.k \in {"Total", "BF", "CF"}

(* line 73: the line is a description fragment *)
PI_IsDescription(line) == line.k = "text"

(* PI_InWindow with the ceiling one line further *)
M_PI_InWindow_Inclusive(lines, n, m) == m < Len(lines) /\ m <= n + LookWindow

(* line 60: the look-ahead loop's condition *)
PI_InWindow(lines, n, m) == m < Len(lines) /\ m < n + LookWindow

(* lines 93-100: the record appended for a candidate *)
PI_Record(date_str, parts, amts, prev_balance, page_num) ==
    LET new_balance == Last(amts)
        c == PI_Classify(new_balance, prev_balance)
    IN  [date |-> date_str, description |-> Description(parts, 3),
         deposit |-> c.deposit, withdrawal |-> c.withdrawal,
         balance |-> new_balance, page |-> page_num]

(* PI_NextLine without the i += 1 of line 106 *)
M_PI_NextLine_Stays ==
    /\ prog = "detailed" /\ pc = "scan"
    /\ i < Len(pages_text[p])
    /\ ~IsDateLine(LineAt(pages_text[p], i))
    /\ i' = i
    /\ UNCHANGED importVars
    /\ UNCHANGED <<prog, pc, pages_text, starting_balance, p, j, amounts,
                   description_parts, current_balance, transactions,
                   all_transactions, result>>

(* lines 41-45, 105-106: a line that opens nothing *)
PI_NextLine ==
    /\ prog = "detailed" /\ pc = "scan"
    /\ i < Len(pages_text[p])
    /\ ~IsDateLine(LineAt(pages_text[p], i))
    /\ i' = i + 1
    /\ UNCHANGED importVars
    /\ UNCHANGED <<prog, pc, pages_text, starting_balance, p, j, amounts,
                   description_parts, current_balance, transactions,
                   all_transactions, result>>

(* lines 48-53: a date line followed by a carry or total marker *)
PI_SkipMarker ==
    /\ prog = "detailed" /\ pc = "scan"
    /\ i < Len(pages_text[p])
    /\ IsDateLine(LineAt(pages_text[p], i))
    /\ PI_IsSectionMarker(pages_text[p], i)
    /\ i' = i + 2
    /\ UNCHANGED importVars
    /\ UNCHANGED <<prog, pc, pages_text, starting_balance, p, j, amounts,
                   description_parts, current_balance, transactions,
                   all_transactions, result>>

(* lines 55-58: a date line opens a candidate *)
PI_Open ==
    /\ prog = "detailed" /\ pc = "scan"
    /\ i < Len(pages_text[p])
    /\ IsDateLine(LineAt(pages_text[p], i))
    /\ ~PI_IsSectionMarker(pages_text[p], i)
    /\ description_parts' = <<>>
    /\ j' = i + 1
    /\ amounts' = <<>>
    /\ pc' = "look"
    /\ UNCHANGED importVars
    /\ UNCHANGED <<prog, pages_text, starting_balance, p, i, current_balance,
                   transactions, all_transactions, result>>

(* lines 60-76: one iteration of the look-ahead that ends in j += 1 *)
PI_LookStep ==
    /\ prog = "detailed" /\ pc = "look"
    /\ PI_InWindow(pages_text[p], i, j)
    /\ LET check_line == LineAt(pages_text[p], j)
           found_amounts == FoundAmounts(check_line)
       IN  /\ ~PI_IsTerminator(check_line)
           /\ Len(amounts \o found_amounts) < 2 \/ found_amounts = <<>>
           /\ amounts' = amounts \o found_amounts
           /\ description_parts' =
                 IF found_amounts = <<>> /\ PI_IsDescription(check_line)
                 THEN Append(description_parts, check_line.d)
                 ELSE description_parts
    /\ j' = j + 1
    /\ UNCHANGED importVars
    /\ UNCHANGED <<prog, pc, pages_text, starting_balance, p, i, current_balance,
                   transactions, all_transactions, result>>

(* lines 60-64, 71-72, 78-104: the look-ahead ends (window exhausted, a    *)
(* terminator line, or two amounts collected); the candidate is emitted or *)
(* discarded and the scan resumes at j                                     *)
PI_Close ==
    /\ prog = "detailed" /\ pc = "look"
    /\ LET lines == pages_text[p]
           inside == PI_InWindow(lines, i, j) /\ ~PI_IsTerminator(LineAt(lines, j))
           amts == IF inside THEN amounts \o FoundAmounts(LineAt(lines, j)) ELSE amounts
       IN  /\ inside => (FoundAmounts(LineAt(lines, j)) # <<>> /\ Len(amts) >= 2)
           /\ amounts' = amts
           /\ IF Len(amts) >= 2
              THEN /\ all_transactions' = Append(all_transactions,
                          PI_Record(LineAt(lines, i).d, description_parts, amts,
                                    current_balance, p))
                   /\ current_balance' = Last(amts)
              ELSE UNCHANGED <<all_transactions, current_balance>>
    /\ i' = j
    /\ pc' = "scan"
    /\ UNCHANGED importVars
    /\ UNCHANGED <<prog, pages_text, starting_balance, p, j, description_parts,
                   transactions, result>>

(* PI_NextPage with the running balance reset at the page boundary *)
M_PI_NextPage_Reset ==
    /\ prog = "detailed" /\ pc = "scan"
    /\ i >= Len(pages_text[p])
    /\ p < Len(pages_text)
    /\ p' = p + 1
    /\ i' = 0
    /\ current_balance' = starting_balance
    /\ UNCHANGED importVars
    /\ UNCHANGED <<prog, pc, pages_text, starting_balance, j, amounts,
                   description_parts, transactions, all_transactions, result>>

(* line 37: the next page is scanned from its first line *)
PI_NextPage ==
    /\ prog = "detailed" /\ pc = "scan"
    /\ i >= Len(pages_text[p])
    /\ p < Len(pages_text)
    /\ p' = p + 1
    /\ i' = 0
    /\ UNCHANGED importVars
    /\ UNCHANGED <<prog, pc, pages_text, starting_balance, j, amounts,
                   description_parts, current_balance, transactions,
                   all_transactions, result>>

(* line 108 *)
PI_Return ==
    /\ prog = "detailed" /\ pc = "scan"
    /\ i >= Len(pages_text[p])
    /\ p = Len(pages_text)
    /\ result' = [kind |-> "transactions", transactions |-> all_transactions]
    /\ pc' = "done"
    /\ UNCHANGED importVars
    /\ UNCHANGED <<prog, pages_text, starting_balance, p, i, j, amounts,
                   description_parts, current_balance, transactions,
                   all_transactions>>

(* parse_individual_transactions(pages_text, starting_balance), lines 32-40 *)
PI_Init ==
    /\ prog = "detailed"
    /\ pc = "scan"
    /\ IsDocument(pages_text)
    /\ starting_balance \in StartBalances
    /\ p = 1 /\ i = 0 /\ j = 0
    /\ amounts = <<>>
    /\ description_parts = <<>>
    /\ current_balance = starting_balance
    /\ transactions = <<>>
    /\ all_transactions = <<>>
    /\ result = NoResult
    /\ summary = NoSummary
    /\ tolerance = Tolerance
    /\ dry_run = FALSE
    /\ created = 0
    /\ report = "none"
    /\ ledger = NoLedger
    /\ doc = NoDoc
    /\ password = NoPassword
    /\ caller = "none"
    /\ history = <<>>
    /\ page_summary = NoPageSummary
    /\ success_count = 0
    /\ statement = 0

PI_Next ==
    \/ PI_NextLine
    \/ PI_SkipMarker
    \/ PI_Open
    \/ PI_LookStep
    \/ PI_Close
    \/ PI_NextPage
    \/ PI_Return

(***************************************************************************)
(* extract_transactions_from_page_text and                                 *)
(* extract_all_transactions_from_pdf (pdf_reader_ocr.py)                   *)
(***************************************************************************)
BFFloor == 1000000     \* potential_balance > 10000

(* re.search(r'(\d{1,3}(?:,\d{3})+\.\d{2})', line): the first token written *)
(* with thousands separators, 0 when the line holds none                    *)
FirstGrouped(line) ==
    LET ns == {n \in 1..Len(line.a) : line.a[n].sep}
    IN  IF ns = {} THEN 0 ELSE line.a[CHOOSE n \in ns : \A m \in ns : n <= m].v

(* lines 258-266: the amount accepted after the B/F line at idx, 0 if none *)
EA_AcceptedAfter(lines, idx, floor) ==
    LET js == {jj \in 1..4 : /\ idx + jj < Len(lines)
                             /\ FirstGrouped(LineAt(lines, idx + jj)) > floor}
    IN  IF js = {} THEN 0
        ELSE FirstGrouped(LineAt(lines, idx + (CHOOSE jj \in js : \A m \in js : jj <= m)))

(* lines 254-268: the opening balance found on page 1, 0 if none *)
EA_StartingBalance(lines) ==
    LET idxs == {idx \in 0..(Len(lines) - 1) :
                    /\ LineAt(lines, idx).k = "BF"
                    /\ idx + 1 < Len(lines)
                    /\ EA_AcceptedAfter(lines, idx, BFFloor) > 0}
    IN  IF idxs = {} THEN 0
        ELSE EA_AcceptedAfter(lines, CHOOSE idx \in idxs : \A m \in idxs : idx <= m, BFFloor)

(* lines 132-134 *)
XT_IsSkipMarker(lines, n) ==
    /\ n + 1 < Len(lines)
    /\ \/ LineAt(lines, n + 1).k \in {"BF", "Total", "empty"}
       \/ ContainsTotal(LineAt(lines, n + 1))

(* lines 148-153 *)
XT_IsTerminator(line) ==
    \/ IsDateLine(line)
    \/ line.k \in {"Total", "BF", "CF", "empty"}
    \/ ContainsTotal(line)

(* line 166 *)
XT_IsDescription(line) == line.k = "text"

(* line 144 *)
XT_InWindow(lines, n, m) == m < Len(lines) /\ m < n + LookWindow

(* lines 189-197: the balance near a B/F line in the ten lines before the  *)
(* candidate, 0 when there is none                                         *)
XT_BroughtForward(lines, n) ==
    LET ks == {k \in Max(0, n - 10)..(n - 1) : LineAt(lines, k).k = "BF"}
    IN  IF ks = {} THEN 0
        ELSE LET k == CHOOSE x \in ks : \A y \in ks : x <= y
                 ms == {m \in k..(Min(k + 5, Len(lines)) - 1) :
                            FoundAmounts(LineAt(lines, m)) # <<>>}
             IN  IF ms = {} THEN 0
                 ELSE Last(FoundAmounts(LineAt(lines, CHOOSE x \in ms : \A y \in ms : x <= y)))

(* lines 199-214: the page parser's split, by the first token *)
XT_Classify(amts, balance, prev_balance) ==
    LET transaction_amount == amts[1]
    IN  IF prev_balance > 0
        THEN IF balance > prev_balance
             THEN [deposit |-> transaction_amount, withdrawal |-> 0]
             ELSE [deposit |-> 0, withdrawal |-> transaction_amount]
        ELSE IF Len(amts) = 2
             THEN [deposit |-> transaction_amount, withdrawal |-> 0]
             ELSE [deposit |-> 0, withdrawal |-> 0]

(* lines 177-227: the record of a candidate with at least one amount *)
XT_Record(date_str, parts, amts, lines, n, txns, page_num) ==
    LET prev_balance ==
            IF page_num = 1 /\ txns = <<>>
            THEN XT_BroughtForward(lines, n)
            ELSE IF txns # <<>> THEN Last(txns).balance ELSE 0
        balance == IF Len(amts) >= 2 THEN Last(amts) ELSE 0
        c == IF Len(amts) >= 2
             THEN XT_Classify(amts, balance, prev_balance)
             ELSE [deposit |-> 0, withdrawal |-> 0]
    IN  [date |-> date_str, description |-> Description(parts, 4),
         deposit |-> c.deposit, withdrawal |-> c.withdrawal, balance |-> balance]

(* line 220: the candidate is appended *)
XT_Emits(amts) == amts # <<>>

(* lines 281-291: the assembler's reclassification of one record *)
EA_Reclassify(txn, prev_balance) ==
    IF prev_balance > 0 /\ txn.balance > 0
    THEN LET balance_change == txn.balance - prev_balance
         IN  IF balance_change > 0
             THEN [txn EXCEPT !.deposit = balance_change, !.withdrawal = 0]
             ELSE [txn EXCEPT !.deposit = 0, !.withdrawal = Abs(balance_change)]
    ELSE txn

RECURSIVE EA_Assemble(_, _, _)
(* lines 277-293: the page's records appended to all_transactions *)
EA_Assemble(all, txns, start) ==
    IF txns = <<>> THEN all
    ELSE LET prev_balance == IF all # <<>> THEN Last(all).balance ELSE start
         IN  EA_Assemble(Append(all, EA_Reclassify(Head(txns), prev_balance)),
                         Tail(txns), start)

(* EA_Result that takes the final balance from the summarizer's answer for  *)
(* the last page                                                           *)
M_EA_Result_SummarizerBalance(all, start) ==
    [kind |-> "extracted",
     transactions |-> all,
     starting_balance |-> start,
     total_deposits |-> SumDeposits(all),
     total_withdrawals |-> SumWithdrawals(all),
     final_balance |-> page_summary'.balance]

(* lines 299-313 *)
EA_Result(all, start) ==
    [kind |-> "extracted",
     transactions |-> all,
     starting_balance |-> start,
     total_deposits |-> SumDeposits(all),
     total_withdrawals |-> SumWithdrawals(all),
     final_balance |-> IF all # <<>> THEN Last(all).balance ELSE 0]

(* What extract_transactions_with_llm returns for a page: the figures the  *)
(* summarizer answered with, or zeros (lines 93, 96, 100; no 'Total:').    *)
LlmAnswers ==
    { [deposits |-> 0, withdrawals |-> 0, balance |-> 0],
      [deposits |-> 500000, withdrawals |-> 0, balance |-> 5000000],
      [deposits |-> 0, withdrawals |-> 500000, balance |-> 0] }

(* lines 253-270 *)
EA_FindStart ==
    /\ prog = "ocr" /\ pc = "start"
    /\ starting_balance' = EA_StartingBalance(pages_text[1])
    /\ pc' = "scan"
    /\ UNCHANGED importVars
    /\ UNCHANGED <<prog, pages_text, p, i, j, amounts, description_parts,
                   current_balance, transactions, all_transactions, result>>

(* lines 123-128, 230-231 *)
XT_NextLine ==
    /\ prog = "ocr" /\ pc = "scan"
    /\ i < Len(pages_text[p])
    /\ ~IsDateLine(LineAt(pages_text[p], i))
    /\ i' = i + 1
    /\ UNCHANGED importVars
    /\ UNCHANGED <<prog, pc, pages_text, starting_balance, p, j, amounts,
                   description_parts, current_balance, transactions,
                   all_transactions, result>>

(* lines 131-136 *)
XT_SkipMarker ==
    /\ prog = "ocr" /\ pc = "scan"
    /\ i < Len(pages_text[p])
    /\ IsDateLine(LineAt(pages_text[p], i))
    /\ XT_IsSkipMarker(pages_text[p], i)
    /\ i' = i + 1
    /\ UNCHANGED importVars
    /\ UNCHANGED <<prog, pc, pages_text, starting_balance, p, j, amounts,
                   description_parts, current_balance, transactions,
                   all_transactions, result>>

(* lines 138-143 *)
XT_Open ==
    /\ prog = "ocr" /\ pc = "scan"
    /\ i < Len(pages_text[p])
    /\ IsDateLine(LineAt(pages_text[p], i))
    /\ ~XT_IsSkipMarker(pages_text[p], i)
    /\ description_parts' = <<>>
    /\ amounts' = <<>>
    /\ j' = i + 1
    /\ pc' = "look"
    /\ UNCHANGED importVars
    /\ UNCHANGED <<prog, pages_text, starting_balance, p, i, current_balance,
                   transactions, all_transactions, result>>

(* lines 144-169: one iteration of the look-ahead that ends in j += 1 *)
XT_LookStep ==
    /\ prog = "ocr" /\ pc = "look"
    /\ XT_InWindow(pages_text[p], i, j)
    /\ LET next_line == LineAt(pages_text[p], j)
           amount_matches == FoundAmounts(next_line)
       IN  /\ ~XT_IsTerminator(next_line)
           /\ Len(amounts \o amount_matches) < 2 \/ amount_matches = <<>>
           /\ amounts' = amounts \o amount_matches
           /\ description_parts' =
                 IF amount_matches = <<>> /\ XT_IsDescription(next_line)
                 THEN Append(description_parts, next_line.d)
                 ELSE description_parts
    /\ j' = j + 1
    /\ UNCHANGED importVars
    /\ UNCHANGED <<prog, pc, pages_text, starting_balance, p, i, current_balance,
                   transactions, all_transactions, result>>

(* lines 144-153, 162-163, 171-229: the look-ahead ends; the candidate is  *)
(* appended to the page's list if any amount was found                     *)
XT_Close ==
    /\ prog = "ocr" /\ pc = "look"
    /\ LET lines == pages_text[p]
           inside == XT_InWindow(lines, i, j) /\ ~XT_IsTerminator(LineAt(lines, j))
           amts == IF inside THEN amounts \o FoundAmounts(LineAt(lines, j)) ELSE amounts
       IN  /\ inside => (FoundAmounts(LineAt(lines, j)) # <<>> /\ Len(amts) >= 2)
           /\ amounts' = amts
           /\ transactions' =
                 IF XT_Emits(amts)
                 THEN Append(transactions,
                             XT_Record(LineAt(lines, i).d, description_parts, amts,
                                       lines, i, transactions, p))
                 ELSE transactions
    /\ i' = j
    /\ pc' = "scan"
    /\ UNCHANGED importVars
    /\ UNCHANGED <<prog, pages_text, starting_balance, p, j, description_parts,
                   current_balance, all_transactions, result>>

(* lines 233-234, 272-296: the page is done; its records are reclassified  *)
(* and appended, the summarizer is asked about the page (line 296: it      *)
(* answers with figures or, on any failure, with zeros) and the next page  *)
(* starts                                                                  *)
EA_NextPage ==
    /\ prog = "ocr" /\ pc = "scan"
    /\ i >= Len(pages_text[p])
    /\ p < Len(pages_text)
    /\ all_transactions' = EA_Assemble(all_transactions, transactions, starting_balance)
    /\ transactions' = <<>>
    /\ \E answer \in LlmAnswers : page_summary' = answer
    /\ p' = p + 1
    /\ i' = 0
    /\ UNCHANGED assemblerVars
    /\ UNCHANGED <<prog, pc, pages_text, starting_balance, j, amounts,
                   description_parts, current_balance, result>>

(* lines 233-234, 272-313: the last page is done *)
EA_Return ==
    /\ prog = "ocr" /\ pc = "scan"
    /\ i >= Len(pages_text[p])
    /\ p = Len(pages_text)
    /\ all_transactions' = EA_Assemble(all_transactions, transactions, starting_balance)
    /\ \E answer \in LlmAnswers : page_summary' = answer
    /\ result' = EA_Result(all_transactions', starting_balance)
    /\ pc' = "done"
    /\ UNCHANGED assemblerVars
    /\ UNCHANGED <<prog, pages_text, starting_balance, p, i, j, amounts,
                   description_parts, current_balance, transactions>>

(* extract_all_transactions_from_pdf(pdf_path), lines 248-254 *)
EA_Init ==
    /\ prog = "ocr"
    /\ pc = "start"
    /\ IsDocument(pages_text)
    /\ starting_balance = 0
    /\ p = 1 /\ i = 0 /\ j = 0
    /\ amounts = <<>>
    /\ description_parts = <<>>
    /\ current_balance = 0
    /\ transactions = <<>>
    /\ all_transactions = <<>>
    /\ result = NoResult
    /\ summary = NoSummary
    /\ tolerance = Tolerance
    /\ dry_run = FALSE
    /\ created = 0
    /\ report = "none"
    /\ ledger = NoLedger
    /\ doc = NoDoc
    /\ password = NoPassword
    /\ caller = "none"
    /\ history = <<>>
    /\ page_summary = NoPageSummary
    /\ success_count = 0
    /\ statement = 0

EA_Next ==
    \/ EA_FindStart
    \/ XT_NextLine
    \/ XT_SkipMarker
    \/ XT_Open
    \/ XT_LookStep
    \/ XT_Close
    \/ EA_NextPage
    \/ EA_Return

(***************************************************************************)
(* parse_individual_transactions called a second time with the arguments   *)
(* of the first call.  Every name of lines 32-40 is a local of the call:   *)
(* the list, the running balance and the indices start afresh, and         *)
(* amounts / description_parts are assigned (lines 57-58) before they are  *)
(* read, so what the first call left in them is not seen.                  *)
(***************************************************************************)
(* PI_Again with the running balance kept from the first call, as a        *)
(* module-level balance would be                                           *)
M_PI_Again_KeepsBalance ==
    /\ prog = "detailed" /\ pc = "done"
    /\ caller = "none" /\ history = <<>>
    /\ history' = Append(history, result)
    /\ result' = NoResult
    /\ all_transactions' = <<>>
    /\ p' = 1
    /\ i' = 0
    /\ pc' = "scan"
    /\ UNCHANGED <<prog, pages_text, starting_balance, j, amounts,
                   description_parts, current_balance, transactions, summary,
                   tolerance, dry_run, created, report, ledger, doc, password,
                   caller, page_summary,
                   success_count, statement>>

(* lines 27-40, entered again *)
PI_Again ==
    /\ prog = "detailed" /\ pc = "done"
    /\ caller = "none" /\ history = <<>>
    /\ history' = Append(history, result)
    /\ result' = NoResult
    /\ all_transactions' = <<>>
    /\ current_balance' = starting_balance
    /\ p' = 1
    /\ i' = 0
    /\ pc' = "scan"
    /\ UNCHANGED <<prog, pages_text, starting_balance, j, amounts,
                   description_parts, transactions, summary, tolerance,
                   dry_run, created, report, ledger, doc, password, caller,
                   page_summary, success_count, statement>>

PT_Next == PI_Next \/ PI_Again

SpecTwice == PI_Init /\ [][PT_Next]_vars

(***************************************************************************)
(* extract_all_transactions_from_pdf called a second time on the same      *)
(* document: the summarizer is asked again about every page and answers    *)
(* whatever it answers, independently of the first call.                   *)
(***************************************************************************)
(* lines 237-254, entered again *)
EA_Again ==
    /\ prog = "ocr" /\ pc = "done"
    /\ caller = "none" /\ history = <<>>
    /\ history' = Append(history, result)
    /\ result' = NoResult
    /\ starting_balance' = 0
    /\ all_transactions' = <<>>
    /\ transactions' = <<>>
    /\ p' = 1
    /\ i' = 0
    /\ pc' = "start"
    /\ UNCHANGED <<prog, pages_text, j, amounts, description_parts,
                   current_balance, summary, tolerance, dry_run, created,
                   report, ledger, doc, password, caller, page_summary,
                   success_count, statement>>

ET_Next == EA_Next \/ EA_Again

SpecOcrTwice == EA_Init /\ [][ET_Next]_vars

(***************************************************************************)
(* parse_individual_transactions on documents whose records are long: a    *)
(* date line followed by eight description lines, so that what comes next  *)
(* falls on the last line of the look-ahead window (i + 9) and on the      *)
(* first line after it (i + 10).                                           *)
(***************************************************************************)
LongOpening ==
    <<DateLine, TextLine, TextLine, TextLine, TextLine, TextLine, TextLine,
      TextLine, TextLine>>

LongFragments ==
    { Frag(LongOpening), Frag(<<DateLine>>), Frag(<<TextLine>>),
      Frag(<<AmtLine(<<T450>>)>>), Frag(<<AmtLine(<<T50450>>)>>),
      Frag(<<AmtLine(<<T450, T50450>>)>>), Frag(<<CFLine>>), PageBreak }

(* pages is the text of some long document of at most MaxFrags fragments *)
IsLongDocument(pages) ==
    \E n \in 1..MaxFrags : \E fs \in [1..n -> LongFragments] :
        pages = SplitPages(fs, <<>>, <<>>)

(* parse_individual_transactions(pages_text, starting_balance), lines 32-40 *)
PW_Init ==
    /\ prog = "detailed"
    /\ pc = "scan"
    /\ IsLongDocument(pages_text)
    /\ starting_balance \in StartBalances
    /\ p = 1 /\ i = 0 /\ j = 0
    /\ amounts = <<>>
    /\ description_parts = <<>>
    /\ current_balance = starting_balance
    /\ transactions = <<>>
    /\ all_transactions = <<>>
    /\ result = NoResult
    /\ summary = NoSummary
    /\ tolerance = Tolerance
    /\ dry_run = FALSE
    /\ created = 0
    /\ report = "none"
    /\ ledger = NoLedger
    /\ doc = NoDoc
    /\ password = NoPassword
    /\ caller = "none"
    /\ history = <<>>
    /\ page_summary = NoPageSummary
    /\ success_count = 0
    /\ statement = 0

SpecWindow == PW_Init /\ [][PI_Next]_vars

(* The routine is one sequential loop: whenever it has a next step it      *)
(* takes it.                                                               *)
SpecWindowFair == SpecWindow /\ WF_vars(PI_Next)

(***************************************************************************)
(* Both statement assemblers, each on every document.                      *)
(***************************************************************************)
Init == PI_Init \/ EA_Init

Next == PI_Next \/ EA_Next

Spec == Init /\ [][Next]_vars

(***************************************************************************)
(* extract_text_from_pdf (pdf_reader_ocr.py)                               *)
(*                                                                         *)
(* doc is the file and its handle: whether it is encrypted, the password   *)
(* that opens it, its pages, and the handle pymupdf.open gave ("none"      *)
(* before the call, then "open", "closed" after doc.close()).              *)
(***************************************************************************)
MaxPages == 3

(* the texts a page can have, as lists of lines *)
PageTexts == { <<DateLine, AmtLine(<<T450, T50450>>)>>, <<BFLine, AmtLine(<<T50000>>)>> }

(* the passwords the function is called with: None, '', the right one, a wrong one *)
Passwords == {NoPassword, "", "guru2111", "wrong"}

(* `not password` *)
NotGiven(pw) == pw \in {NoPassword, ""}

(* doc.authenticate(password) *)
Authenticate(d, pw) == pw = d.key

(* XP_Refused with the authenticate() call of line 21 left out *)
M_XP_Refused_NoAuthenticate(d, pw) == d.encrypted /\ NotGiven(pw)

(* lines 20-21: the document is encrypted and the password does not open it *)
XP_Refused(d, pw) == d.encrypted /\ (NotGiven(pw) \/ ~Authenticate(d, pw))

(* extract_text_from_pdf(pdf_path, password) *)
XP_Init ==
    /\ prog = "text"
    /\ pc = "open"
    /\ pages_text = <<>>
    /\ starting_balance = 0
    /\ p = 1 /\ i = 0 /\ j = 0
    /\ amounts = <<>>
    /\ description_parts = <<>>
    /\ current_balance = 0
    /\ transactions = <<>>
    /\ all_transactions = <<>>
    /\ result = NoResult
    /\ summary = NoSummary
    /\ tolerance = Tolerance
    /\ dry_run = FALSE
    /\ created = 0
    /\ report = "none"
    /\ ledger = NoLedger
    /\ \E enc \in BOOLEAN : \E n \in 0..MaxPages : \E pgs \in [1..n -> PageTexts] :
          doc = [handle |-> "none", encrypted |-> enc, key |-> "guru2111", pages |-> pgs]
    /\ password \in Passwords
    /\ caller = "none"
    /\ history = <<>>
    /\ page_summary = NoPageSummary
    /\ success_count = 0
    /\ statement = 0

(* line 18: pymupdf.open *)
XP_Open ==
    /\ prog = "text" /\ pc = "open"
    /\ doc' = [doc EXCEPT !.handle = "open"]
    /\ pc' = "auth"
    /\ UNCHANGED <<prog, pages_text, starting_balance, p, i, j, amounts,
                   description_parts, current_balance, transactions,
                   all_transactions, result, summary, tolerance, dry_run,
                   created, report, ledger, password, caller,
                   history, page_summary,
                   success_count, statement>>

(* lines 20-22: the RuntimeError is raised; nothing else is done *)
XP_Raise ==
    /\ prog = "text" /\ pc = "auth"
    /\ XP_Refused(doc, password)
    /\ result' = [kind |-> "raised",
                  error |-> [type |-> "RuntimeError",
                             args |-> <<"PDF is encrypted and requires authentication">>]]
    /\ pc' = "done"
    /\ UNCHANGED callVars
    /\ UNCHANGED <<prog, pages_text, starting_balance, p, i, j, amounts,
                   description_parts, current_balance, transactions,
                   all_transactions, summary, tolerance, dry_run, created,
                   report, ledger>>

(* lines 20-24: the document is readable; pages_text = [] *)
XP_Admit ==
    /\ prog = "text" /\ pc = "auth"
    /\ ~XP_Refused(doc, password)
    /\ pages_text' = <<>>
    /\ p' = 1
    /\ pc' = "read"
    /\ UNCHANGED callVars
    /\ UNCHANGED <<prog, starting_balance, i, j, amounts, description_parts,
                   current_balance, transactions, all_transactions, result,
                   summary, tolerance, dry_run, created, report, ledger>>

(* lines 25-28: the text of the next page is appended *)
XP_Page ==
    /\ prog = "text" /\ pc = "read"
    /\ p <= Len(doc.pages)
    /\ pages_text' = Append(pages_text, doc.pages[p])
    /\ p' = p + 1
    /\ UNCHANGED callVars
    /\ UNCHANGED <<prog, pc, starting_balance, i, j, amounts, description_parts,
                   current_balance, transactions, all_transactions, result,
                   summary, tolerance, dry_run, created, report, ledger>>

(* lines 30-31: doc.close() and the return *)
XP_Return ==
    /\ prog = "text" /\ pc = "read"
    /\ p > Len(doc.pages)
    /\ doc' = [doc EXCEPT !.handle = "closed"]
    /\ result' = [kind |-> "returned", value |-> pages_text]
    /\ pc' = "done"
    /\ UNCHANGED <<prog, pages_text, starting_balance, p, i, j, amounts,
                   description_parts, current_balance, transactions,
                   all_transactions, summary, tolerance, dry_run, created,
                   report, ledger, password, caller,
                   history, page_summary,
                   success_count, statement>>

XP_Next ==
    \/ XP_Open
    \/ XP_Raise
    \/ XP_Admit
    \/ XP_Page
    \/ XP_Return

SpecText == XP_Init /\ [][XP_Next]_vars

(***************************************************************************)
(* process_bank_statement and extract_transactions_with_llm                *)
(* (pdf_reader_ocr.py)                                                     *)
(***************************************************************************)
SummaryFloor == 10000000     \* potential_balance > 100000

(* The amounts statements carry after a B/F line: below both floors, at    *)
(* and between them, and above both.                                       *)
T5000 == Tok(500000, TRUE)         \* "5,000.00"
T10000 == Tok(1000000, TRUE)       \* "10,000.00"
T100000 == Tok(10000000, TRUE)     \* "100,000.00"
T125430 == Tok(12543050, TRUE)     \* "125,430.50"

StatementFragments ==
    { Frag(<<BFLine>>), Frag(<<DateLine>>),
      Frag(<<AmtLine(<<T5000>>)>>), Frag(<<AmtLine(<<T10000>>)>>),
      Frag(<<AmtLine(<<T50000>>)>>), Frag(<<AmtLine(<<T100000>>)>>),
      Frag(<<AmtLine(<<T125430>>)>>),
      Frag(<<AmtLine(<<T5000, T125430>>)>>),
      PageBreak }

(* pages is the text of some statement of at most MaxFrags fragments *)
IsStatement(pages) ==
    \E n \in 1..MaxFrags : \E fs \in [1..n -> StatementFragments] :
        pages = SplitPages(fs, <<>>, <<>>)

(* PS_StartingBalance with the floor test of line 360 dropped *)
M_PS_StartingBalance_NoFloor(lines) ==
    LET idxs == {idx \in 0..(Len(lines) - 1) :
                    /\ LineAt(lines, idx).k = "BF"
                    /\ idx + 1 < Len(lines)
                    /\ EA_AcceptedAfter(lines, idx, 0) > 0}
    IN  IF idxs = {} THEN 0
        ELSE EA_AcceptedAfter(lines, CHOOSE idx \in idxs : \A m \in idxs : idx <= m, 0)

(* lines 349-364: the opening balance found on page 1, 0 if none *)
PS_StartingBalance(lines) ==
    LET idxs == {idx \in 0..(Len(lines) - 1) :
                    /\ LineAt(lines, idx).k = "BF"
                    /\ idx + 1 < Len(lines)
                    /\ EA_AcceptedAfter(lines, idx, SummaryFloor) > 0}
    IN  IF idxs = {} THEN 0
        ELSE EA_AcceptedAfter(lines, CHOOSE idx \in idxs : \A m \in idxs : idx <= m,
                              SummaryFloor)

(* lines 338-364: one page: the summarizer's figures are added up, the     *)
(* last positive balance is kept, page 1 is searched for the B/F amount    *)
PS_Page ==
    /\ prog = "summary" /\ pc = "pages"
    /\ p <= Len(pages_text)
    /\ \E r \in LlmAnswers :
          summary' =
              [total_deposits |-> summary.total_deposits + r.deposits,
               total_withdrawals |-> summary.total_withdrawals + r.withdrawals,
               final_balance |-> IF r.balance > 0 THEN r.balance
                                 ELSE summary.final_balance,
               starting_balance |->
                   IF p = 1 /\ summary.starting_balance = 0
                   THEN PS_StartingBalance(pages_text[p])
                   ELSE summary.starting_balance]
    /\ p' = p + 1
    /\ UNCHANGED callVars
    /\ UNCHANGED <<prog, pc, pages_text, starting_balance, i, j, amounts,
                   description_parts, current_balance, transactions,
                   all_transactions, result, tolerance, dry_run, created,
                   report, ledger>>

(* PS_Return without the derivation of lines 367-368 *)
M_PS_Return_NoDerivation ==
    /\ prog = "summary" /\ pc = "pages"
    /\ p > Len(pages_text)
    /\ result' = [kind |-> "summary", value |-> summary]
    /\ pc' = "done"
    /\ UNCHANGED callVars
    /\ UNCHANGED <<prog, pages_text, starting_balance, p, i, j, amounts,
                   description_parts, current_balance, transactions,
                   all_transactions, summary, tolerance, dry_run, created,
                   report, ledger>>

(* lines 366-375: a starting balance still 0 is derived from the final     *)
(* balance and the totals; the four figures are returned                   *)
PS_Return ==
    /\ prog = "summary" /\ pc = "pages"
    /\ p > Len(pages_text)
    /\ summary' =
          IF summary.starting_balance = 0 /\ summary.final_balance > 0
          THEN [summary EXCEPT !.starting_balance =
                    summary.final_balance - summary.total_deposits
                      + summary.total_withdrawals]
          ELSE summary
    /\ result' = [kind |-> "summary", value |-> summary']
    /\ pc' = "done"
    /\ UNCHANGED callVars
    /\ UNCHANGED <<prog, pages_text, starting_balance, p, i, j, amounts,
                   description_parts, current_balance, transactions,
                   all_transactions, tolerance, dry_run, created, report, ledger>>

PS_Next ==
    \/ PS_Page
    \/ PS_Return

(* process_bank_statement(pdf_path) or extract_all_transactions_from_pdf(pdf_path) *)
(* on a statement                                                          *)
ST_Init ==
    /\ prog \in {"summary", "ocr"}
    /\ pc = IF prog = "summary" THEN "pages" ELSE "start"
    /\ IsStatement(pages_text)
    /\ starting_balance = 0
    /\ p = 1 /\ i = 0 /\ j = 0
    /\ amounts = <<>>
    /\ description_parts = <<>>
    /\ current_balance = 0
    /\ transactions = <<>>
    /\ all_transactions = <<>>
    /\ result = NoResult
    /\ summary = NoSummary
    /\ tolerance = Tolerance
    /\ dry_run = FALSE
    /\ created = 0
    /\ report = "none"
    /\ ledger = NoLedger
    /\ doc = NoDoc
    /\ password = NoPassword
    /\ caller = "none"
    /\ history = <<>>
    /\ page_summary = NoPageSummary
    /\ success_count = 0
    /\ statement = 0

ST_Next == PS_Next \/ EA_Next

SpecSummary == ST_Init /\ [][ST_Next]_vars

(***************************************************************************)
(* verify_pdf_extraction_is_correct (verify_pdf_extraction.py)             *)
(***************************************************************************)
MaxTxns == 2

(* f"{x:.2f}" of an amount: its text, no longer a number *)
Fmt2(x) ==
    LET r == Abs(x) \div 100
        c == Abs(x) % 100
    IN  (IF x < 0 THEN "-" ELSE "") \o ToString(r) \o "."
            \o (IF c < 10 THEN "0" ELSE "") \o ToString(c)

(* VP_Results with only the balance compared *)
M_VP_Results_BalanceOnly(sm, txns, tol) ==
    LET calc_deposits == SumDeposits(txns)
        calc_withdrawals == SumWithdrawals(txns)
        calc_final == sm.starting_balance + calc_deposits - calc_withdrawals
        balance_diff == Abs(calc_final - sm.final_balance)
        deposit_diff == Abs(calc_deposits - sm.total_deposits)
        withdrawal_diff == Abs(calc_withdrawals - sm.total_withdrawals)
    IN  [balance_diff |-> balance_diff,
         deposit_diff |-> deposit_diff,
         withdrawal_diff |-> withdrawal_diff,
         calc_deposits |-> calc_deposits,
         calc_withdrawals |-> calc_withdrawals,
         calc_final |-> calc_final,
         passed |-> balance_diff <= tol]

(* lines 30-54: verification_results *)
VP_Results(sm, txns, tol) ==
    LET calc_deposits == SumDeposits(txns)
        calc_withdrawals == SumWithdrawals(txns)
        calc_final == sm.starting_balance + calc_deposits - calc_withdrawals
        balance_diff == Abs(calc_final - sm.final_balance)
        deposit_diff == Abs(calc_deposits - sm.total_deposits)
        withdrawal_diff == Abs(calc_withdrawals - sm.total_withdrawals)
    IN  [balance_diff |-> balance_diff,
         deposit_diff |-> deposit_diff,
         withdrawal_diff |-> withdrawal_diff,
         calc_deposits |-> calc_deposits,
         calc_withdrawals |-> calc_withdrawals,
         calc_final |-> calc_final,
         passed |-> /\ balance_diff <= tol
                    /\ deposit_diff <= tol
                    /\ withdrawal_diff <= tol]

(* lines 57-61: error_msg, the text the figures are formatted into *)
VP_ErrorMessage(sm, r) ==
    <<"PDF extraction verification failed:",
      "Balance mismatch: Expected", Fmt2(sm.final_balance),
      "Calculated", Fmt2(r.calc_final), "diff:", Fmt2(r.balance_diff),
      "Deposits mismatch: Expected", Fmt2(sm.total_deposits),
      "Calculated", Fmt2(r.calc_deposits), "diff:", Fmt2(r.deposit_diff),
      "Withdrawals mismatch: Expected", Fmt2(sm.total_withdrawals),
      "Calculated", Fmt2(r.calc_withdrawals), "diff:", Fmt2(r.withdrawal_diff),
      "This indicates the PDF extraction may be incorrect. Please verify the PDF manually.">>

(* lines 10-12, 63: the exception object: Exception(error_msg), no fields of its own *)
PDFExtractionVerificationError(error_msg) ==
    [type |-> "PDFExtractionVerificationError", args |-> <<error_msg>>]

(* lines 15-65: how the call ends *)
VP_Outcome(sm, txns, tol) ==
    LET verification_results == VP_Results(sm, txns, tol)
    IN  IF ~verification_results.passed
        THEN [kind |-> "raised",
              error |-> PDFExtractionVerificationError(
                            VP_ErrorMessage(sm, verification_results))]
        ELSE [kind |-> "returned", value |-> verification_results]

(* a transaction record with the given amounts *)
Txn(deposit, withdrawal, balance) ==
    [date |-> "01-08-2025", description |-> <<"Transaction">>,
     deposit |-> deposit, withdrawal |-> withdrawal, balance |-> balance, page |-> 1]

(* The inputs the verifier is applied to: spec.md's scenarios C and D      *)
(* (starting 100000, deposits 5000, withdrawals 3000, final 102000) and    *)
(* their neighbours at and just past the tolerance.                        *)
VerifyTxns == { Txn(500000, 0, 0), Txn(400000, 0, 0), Txn(0, 300000, 0) }
VerifyDeposits == {500000, 500100, 500101}
VerifyWithdrawals == {300000, 300100}
VerifyFinals == {10200000, 10200100, 10200101}
VerifyTolerances == {Tolerance, 0}

VP_Init ==
    /\ prog = "verify"
    /\ pc = "call"
    /\ pages_text = <<>>
    /\ starting_balance = 0
    /\ p = 1 /\ i = 0 /\ j = 0
    /\ amounts = <<>>
    /\ description_parts = <<>>
    /\ current_balance = 0
    /\ transactions = <<>>
    /\ \E n \in 0..MaxTxns : all_transactions \in [1..n -> VerifyTxns]
    /\ result = NoResult
    /\ \E td \in VerifyDeposits, tw \in VerifyWithdrawals, fb \in VerifyFinals :
          summary = [starting_balance |-> 10000000, total_deposits |-> td,
                     total_withdrawals |-> tw, final_balance |-> fb]
    /\ tolerance \in VerifyTolerances
    /\ dry_run = FALSE
    /\ created = 0
    /\ report = "none"
    /\ ledger = NoLedger
    /\ doc = NoDoc
    /\ password = NoPassword
    /\ caller = "none"
    /\ history = <<>>
    /\ page_summary = NoPageSummary
    /\ success_count = 0
    /\ statement = 0

(* verify_pdf_extraction_is_correct(summary, transactions, tolerance) *)
VP_Call ==
    /\ prog = "verify" /\ pc = "call"
    /\ result' = VP_Outcome(summary, all_transactions, tolerance)
    /\ pc' = "done"
    /\ UNCHANGED callVars
    /\ UNCHANGED <<prog, pages_text, starting_balance, p, i, j, amounts,
                   description_parts, current_balance, transactions,
                   all_transactions, summary, tolerance, dry_run, created,
                   report, ledger>>

VP_Next == VP_Call

SpecVerify == VP_Init /\ [][VP_Next]_vars

(***************************************************************************)
(* import_detailed_transactions (import_detailed.py)                        *)
(*                                                                         *)
(* The budget file is ledger: the session of `with Actual(...)`, whether   *)
(* the account exists, the categories it has, the records created in the   *)
(* session (pending) and those a commit made durable (committed).          *)
(***************************************************************************)
CheckTolerance == 100     \* the 1.0 of line 150

(* lines 136-150: the balance check does not warn *)
ID_BalanceCheckPasses(sm, txns) ==
    LET calc_deposits == SumDeposits(txns)
        calc_withdrawals == SumWithdrawals(txns)
        calc_final == sm.starting_balance + calc_deposits - calc_withdrawals
    IN  ~(Abs(calc_final - sm.final_balance) > CheckTolerance)

(* create_transaction(session, date, account, payee, notes, amount) *)
LedgerRecord(payee, amount, category) ==
    [payee |-> payee, amount |-> amount, category |-> category]

(* leaving the `with Actual(...)` block: the session ends, what it did not *)
(* commit is gone                                                          *)
CloseSession(l) == [l EXCEPT !.session = "closed", !.pending = <<>>]

RECURSIVE ChainTxns(_, _)
(* the list parse_individual_transactions emits for the balances bs read   *)
(* after the balance prev                                                  *)
ChainTxns(bs, prev) ==
    IF bs = <<>> THEN <<>>
    ELSE <<PI_Record("01-08-2025", <<>>, <<45000, Head(bs)>>, prev, 1)>>
            \o ChainTxns(Tail(bs), Head(bs))

(* the balances of the imported records and the final balances the summary declares *)
ImportBalances == {5000000, 5045000}
ImportFinals == {5000000, 5000100, 5000101}

ID_Init ==
    /\ prog = "import"
    /\ pc = "check"
    /\ pages_text = <<>>
    /\ starting_balance \in StartBalances
    /\ p = 1 /\ i = 0 /\ j = 0
    /\ amounts = <<>>
    /\ description_parts = <<>>
    /\ current_balance = 0
    /\ transactions = <<>>
    /\ \E n \in 0..MaxTxns : \E bs \in [1..n -> ImportBalances] :
          all_transactions = ChainTxns(bs, starting_balance)
    /\ result = NoResult
    /\ \E fb \in ImportFinals :
          summary = [starting_balance |-> starting_balance,
                     total_deposits |-> SumDeposits(all_transactions),
                     total_withdrawals |-> SumWithdrawals(all_transactions),
                     final_balance |-> fb]
    /\ tolerance = Tolerance
    /\ dry_run \in BOOLEAN
    /\ created = 0
    /\ report = "none"
    /\ \E acc \in BOOLEAN, cats \in SUBSET {"Income", "General"} :
          ledger = [session |-> "closed", account |-> acc, categories |-> cats,
                    pending |-> <<>>, committed |-> <<>>, commits |-> 0]
    /\ doc = NoDoc
    /\ password = NoPassword
    /\ caller = "none"
    /\ history = <<>>
    /\ page_summary = NoPageSummary
    /\ success_count = 0
    /\ statement = 0

(* lines 135-153: the totals are computed and the balance check is printed *)
ID_Check ==
    /\ prog = "import" /\ pc = "check"
    /\ report' = IF ID_BalanceCheckPasses(summary, all_transactions)
                 THEN "passed" ELSE "warning"
    /\ pc' = "gate"
    /\ UNCHANGED callVars
    /\ UNCHANGED <<prog, pages_text, starting_balance, p, i, j, amounts,
                   description_parts, current_balance, transactions,
                   all_transactions, result, summary, tolerance, dry_run,
                   created, ledger>>

(* lines 155-161 *)
ID_DryRun ==
    /\ prog = "import" /\ pc = "gate"
    /\ dry_run
    /\ result' = [kind |-> "returned", error |-> FALSE]
    /\ pc' = "done"
    /\ UNCHANGED callVars
    /\ UNCHANGED <<prog, pages_text, starting_balance, p, i, j, amounts,
                   description_parts, current_balance, transactions,
                   all_transactions, summary, tolerance, dry_run, created,
                   report, ledger>>

(* ID_Connect without the dry-run return of lines 155-161 before it *)
M_ID_Connect_NoGate ==
    /\ prog = "import" /\ pc = "gate"
    /\ ledger' = [ledger EXCEPT !.session = "open"]
    /\ pc' = "account"
    /\ UNCHANGED callVars
    /\ UNCHANGED <<prog, pages_text, starting_balance, p, i, j, amounts,
                   description_parts, current_balance, transactions,
                   all_transactions, result, summary, tolerance, dry_run,
                   created, report>>

(* lines 164-169: the session opens *)
ID_Connect ==
    /\ prog = "import" /\ pc = "gate"
    /\ ~dry_run
    /\ ledger' = [ledger EXCEPT !.session = "open"]
    /\ pc' = "account"
    /\ UNCHANGED callVars
    /\ UNCHANGED <<prog, pages_text, starting_balance, p, i, j, amounts,
                   description_parts, current_balance, transactions,
                   all_transactions, result, summary, tolerance, dry_run,
                   created, report>>

(* lines 170-175: the account is found or created *)
ID_Account ==
    /\ prog = "import" /\ pc = "account"
    /\ ledger' = [ledger EXCEPT !.account = TRUE]
    /\ pc' = "categories"
    /\ UNCHANGED callVars
    /\ UNCHANGED <<prog, pages_text, starting_balance, p, i, j, amounts,
                   description_parts, current_balance, transactions,
                   all_transactions, result, summary, tolerance, dry_run,
                   created, report>>

(* lines 177-192: a category is missing; the function returns *)
ID_MissingCategory ==
    /\ prog = "import" /\ pc = "categories"
    /\ ~({"Income", "General"} \subseteq ledger.categories)
    /\ ledger' = CloseSession(ledger)
    /\ result' = [kind |-> "returned", error |-> TRUE]
    /\ pc' = "done"
    /\ UNCHANGED callVars
    /\ UNCHANGED <<prog, pages_text, starting_balance, p, i, j, amounts,
                   description_parts, current_balance, transactions,
                   all_transactions, summary, tolerance, dry_run, created,
                   report>>

(* ID_Opening without the category tests of lines 186-191 *)
M_ID_Opening_NoCategoryCheck ==
    /\ prog = "import" /\ pc = "categories"
    /\ ledger' = [ledger EXCEPT !.pending =
                     Append(@, LedgerRecord("Opening Balance",
                                            summary.starting_balance, "none"))]
    /\ created' = 1
    /\ i' = 0
    /\ pc' = "loop"
    /\ UNCHANGED callVars
    /\ UNCHANGED <<prog, pages_text, starting_balance, p, j, amounts,
                   description_parts, current_balance, transactions,
                   all_transactions, result, summary, tolerance, dry_run,
                   report>>

(* lines 177-208: both categories exist; the opening balance is created *)
ID_Opening ==
    /\ prog = "import" /\ pc = "categories"
    /\ {"Income", "General"} \subseteq ledger.categories
    /\ ledger' = [ledger EXCEPT !.pending =
                     Append(@, LedgerRecord("Opening Balance",
                                            summary.starting_balance, "none"))]
    /\ created' = 1
    /\ i' = 0
    /\ pc' = "loop"
    /\ UNCHANGED callVars
    /\ UNCHANGED <<prog, pages_text, starting_balance, p, j, amounts,
                   description_parts, current_balance, transactions,
                   all_transactions, result, summary, tolerance, dry_run,
                   report>>

(* ID_Txn with the sign of line 233 forgotten *)
M_ID_Txn_UnsignedWithdrawal ==
    /\ prog = "import" /\ pc = "loop"
    /\ i < Len(all_transactions)
    /\ LET txn_data == all_transactions[i + 1]
       IN  IF txn_data.deposit > 0
           THEN /\ ledger' = [ledger EXCEPT !.pending =
                                 Append(@, LedgerRecord(txn_data.description,
                                                        txn_data.deposit, "Income"))]
                /\ created' = created + 1
           ELSE IF txn_data.withdrawal > 0
           THEN /\ ledger' = [ledger EXCEPT !.pending =
                                 Append(@, LedgerRecord(txn_data.description,
                                                        txn_data.withdrawal, "General"))]
                /\ created' = created + 1
           ELSE UNCHANGED <<ledger, created>>
    /\ i' = i + 1
    /\ UNCHANGED callVars
    /\ UNCHANGED <<prog, pc, pages_text, starting_balance, p, j, amounts,
                   description_parts, current_balance, transactions,
                   all_transactions, result, summary, tolerance, dry_run,
                   report>>

(* ID_Txn that writes the signed amount back into the record it read *)
M_ID_Txn_WritesBack ==
    /\ prog = "import" /\ pc = "loop"
    /\ i < Len(all_transactions)
    /\ LET txn_data == all_transactions[i + 1]
       IN  IF txn_data.deposit > 0
           THEN /\ ledger' = [ledger EXCEPT !.pending =
                                 Append(@, LedgerRecord(txn_data.description,
                                                        txn_data.deposit, "Income"))]
                /\ created' = created + 1
           ELSE IF txn_data.withdrawal > 0
           THEN /\ ledger' = [ledger EXCEPT !.pending =
                                 Append(@, LedgerRecord(txn_data.description,
                                                        -txn_data.withdrawal, "General"))]
                /\ created' = created + 1
           ELSE UNCHANGED <<ledger, created>>
    /\ i' = i + 1
    /\ UNCHANGED callVars
    /\ UNCHANGED <<prog, pc, pages_text, starting_balance, p, j, amounts,
                   description_parts, current_balance, transactions,
                   result, summary, tolerance, dry_run, report>>
    /\ all_transactions' = [all_transactions EXCEPT
                               ![i + 1].withdrawal = -@]

(* lines 212-248: one transaction of the list *)
ID_Txn ==
    /\ prog = "import" /\ pc = "loop"
    /\ i < Len(all_transactions)
    /\ LET txn_data == all_transactions[i + 1]
       IN  IF txn_data.deposit > 0
           THEN /\ ledger' = [ledger EXCEPT !.pending =
                                 Append(@, LedgerRecord(txn_data.description,
                                                        txn_data.deposit, "Income"))]
                /\ created' = created + 1
           ELSE IF txn_data.withdrawal > 0
           THEN /\ ledger' = [ledger EXCEPT !.pending =
                                 Append(@, LedgerRecord(txn_data.description,
                                                        -txn_data.withdrawal, "General"))]
                /\ created' = created + 1
           ELSE UNCHANGED <<ledger, created>>
    /\ i' = i + 1
    /\ UNCHANGED callVars
    /\ UNCHANGED <<prog, pc, pages_text, starting_balance, p, j, amounts,
                   description_parts, current_balance, transactions,
                   all_transactions, result, summary, tolerance, dry_run,
                   report>>

(* ID_Commit moved into the loop: it does not wait for the end of the list *)
M_ID_Commit_InLoop ==
    /\ prog = "import" /\ pc = "loop"
    /\ ledger' = CloseSession([ledger EXCEPT !.committed = @ \o ledger.pending,
                                             !.commits = @ + 1])
    /\ result' = [kind |-> "returned", error |-> FALSE]
    /\ pc' = "done"
    /\ UNCHANGED callVars
    /\ UNCHANGED <<prog, pages_text, starting_balance, p, i, j, amounts,
                   description_parts, current_balance, transactions,
                   all_transactions, summary, tolerance, dry_run, created,
                   report>>

(* lines 250-254: the commit, then the end of the with block *)
ID_Commit ==
    /\ prog = "import" /\ pc = "loop"
    /\ i >= Len(all_transactions)
    /\ ledger' = CloseSession([ledger EXCEPT !.committed = @ \o ledger.pending,
                                             !.commits = @ + 1])
    /\ result' = [kind |-> "returned", error |-> FALSE]
    /\ pc' = "done"
    /\ UNCHANGED callVars
    /\ UNCHANGED <<prog, pages_text, starting_balance, p, i, j, amounts,
                   description_parts, current_balance, transactions,
                   all_transactions, summary, tolerance, dry_run, created,
                   report>>

(* lines 256-259: a call on the budget server raises; the error is printed *)
ID_Error ==
    /\ prog = "import"
    /\ \/ pc = "gate" /\ ~dry_run
       \/ pc \in {"account", "categories", "loop"}
    /\ ledger' = CloseSession(ledger)
    /\ result' = [kind |-> "returned", error |-> TRUE]
    /\ pc' = "done"
    /\ UNCHANGED callVars
    /\ UNCHANGED <<prog, pages_text, starting_balance, p, i, j, amounts,
                   description_parts, current_balance, transactions,
                   all_transactions, summary, tolerance, dry_run, created,
                   report>>

ID_Next ==
    \/ ID_Check
    \/ ID_DryRun
    \/ ID_Connect
    \/ ID_Account
    \/ ID_MissingCategory
    \/ ID_Opening
    \/ ID_Txn
    \/ ID_Commit
    \/ ID_Error

SpecImport == ID_Init /\ [][ID_Next]_vars

(***************************************************************************)
(* import_to_actualbudget (v2_deprecated/import_statement.py): the         *)
(* importer of the list extract_all_transactions_from_pdf returns.         *)
(***************************************************************************)
(* a record as extract_transactions_from_page_text builds it (no 'page') *)
OcrTxn(deposit, withdrawal, balance) ==
    [date |-> "01-08-2025", description |-> <<"Transaction">>,
     deposit |-> deposit, withdrawal |-> withdrawal, balance |-> balance]

(* the records and opening balances of the lists it is given *)
OcrTxns == { OcrTxn(45000, 0, 5045000), OcrTxn(0, 0, 0) }
OcrStarts == {0, 5000000}

IS_Init ==
    /\ prog = "import_v2"
    /\ pc = "gate"
    /\ pages_text = <<>>
    /\ starting_balance \in OcrStarts
    /\ p = 1 /\ i = 0 /\ j = 0
    /\ amounts = <<>>
    /\ description_parts = <<>>
    /\ current_balance = 0
    /\ transactions = <<>>
    /\ \E n \in 0..MaxTxns : all_transactions \in [1..n -> OcrTxns]
    /\ result = NoResult
    /\ summary = [starting_balance |-> starting_balance,
                  total_deposits |-> SumDeposits(all_transactions),
                  total_withdrawals |-> SumWithdrawals(all_transactions),
                  final_balance |-> IF all_transactions # <<>>
                                    THEN Last(all_transactions).balance ELSE 0]
    /\ tolerance = Tolerance
    /\ dry_run \in BOOLEAN
    /\ created = 0
    /\ report = "none"
    /\ \E acc \in BOOLEAN :
          ledger = [session |-> "closed", account |-> acc, categories |-> {},
                    pending |-> <<>>, committed |-> <<>>, commits |-> 0]
    /\ doc = NoDoc
    /\ password = NoPassword
    /\ caller = "none"
    /\ history = <<>>
    /\ page_summary = NoPageSummary
    /\ success_count = 0
    /\ statement = 0

(* lines 55-61 *)
IS_DryRun ==
    /\ prog = "import_v2" /\ pc = "gate"
    /\ dry_run
    /\ result' = [kind |-> "returned", error |-> FALSE]
    /\ pc' = "done"
    /\ UNCHANGED callVars
    /\ UNCHANGED <<prog, pages_text, starting_balance, p, i, j, amounts,
                   description_parts, current_balance, transactions,
                   all_transactions, summary, tolerance, dry_run, created,
                   report, ledger>>

(* lines 64-69: the session opens *)
IS_Connect ==
    /\ prog = "import_v2" /\ pc = "gate"
    /\ ~dry_run
    /\ ledger' = [ledger EXCEPT !.session = "open"]
    /\ pc' = "account"
    /\ UNCHANGED callVars
    /\ UNCHANGED <<prog, pages_text, starting_balance, p, i, j, amounts,
                   description_parts, current_balance, transactions,
                   all_transactions, result, summary, tolerance, dry_run,
                   created, report>>

(* lines 71-78: the account is found or created *)
IS_Account ==
    /\ prog = "import_v2" /\ pc = "account"
    /\ ledger' = [ledger EXCEPT !.account = TRUE]
    /\ created' = 0
    /\ pc' = "opening"
    /\ UNCHANGED callVars
    /\ UNCHANGED <<prog, pages_text, starting_balance, p, i, j, amounts,
                   description_parts, current_balance, transactions,
                   all_transactions, result, summary, tolerance, dry_run,
                   report>>

(* lines 81-96: the opening balance, only if it is positive *)
IS_Opening ==
    /\ prog = "import_v2" /\ pc = "opening"
    /\ IF summary.starting_balance > 0
       THEN /\ ledger' = [ledger EXCEPT !.pending =
                             Append(@, LedgerRecord("Opening Balance",
                                                    summary.starting_balance, "none"))]
            /\ created' = created + 1
       ELSE UNCHANGED <<ledger, created>>
    /\ i' = 0
    /\ pc' = "loop"
    /\ UNCHANGED callVars
    /\ UNCHANGED <<prog, pages_text, starting_balance, p, j, amounts,
                   description_parts, current_balance, transactions,
                   all_transactions, result, summary, tolerance, dry_run,
                   report>>

(* lines 97-117, 124-127: one transaction of the list; the notes of a      *)
(* record to create read txn_data['page'], a KeyError when the record has  *)
(* no such field, which ends the import in the except clause               *)
IS_Txn ==
    /\ prog = "import_v2" /\ pc = "loop"
    /\ i < Len(all_transactions)
    /\ LET txn_data == all_transactions[i + 1]
           amount == IF txn_data.deposit > 0 THEN txn_data.deposit
                     ELSE -txn_data.withdrawal
       IN  IF txn_data.deposit > 0 \/ txn_data.withdrawal > 0
           THEN IF "page" \in DOMAIN txn_data
                THEN /\ ledger' = [ledger EXCEPT !.pending =
                                      Append(@, LedgerRecord(txn_data.description,
                                                             amount, "none"))]
                     /\ created' = created + 1
                     /\ i' = i + 1
                     /\ UNCHANGED <<pc, result>>
                ELSE /\ ledger' = CloseSession(ledger)
                     /\ result' = [kind |-> "returned", error |-> TRUE]
                     /\ pc' = "done"
                     /\ UNCHANGED <<created, i>>
           ELSE /\ i' = i + 1
                /\ UNCHANGED <<ledger, created, pc, result>>
    /\ UNCHANGED callVars
    /\ UNCHANGED <<prog, pages_text, starting_balance, p, j, amounts,
                   description_parts, current_balance, transactions,
                   all_transactions, summary, tolerance, dry_run, report>>

(* lines 119-122: the commit, then the end of the with block *)
IS_Commit ==
    /\ prog = "import_v2" /\ pc = "loop"
    /\ i >= Len(all_transactions)
    /\ ledger' = CloseSession([ledger EXCEPT !.committed = @ \o ledger.pending,
                                             !.commits = @ + 1])
    /\ result' = [kind |-> "returned", error |-> FALSE]
    /\ pc' = "done"
    /\ UNCHANGED callVars
    /\ UNCHANGED <<prog, pages_text, starting_balance, p, i, j, amounts,
                   description_parts, current_balance, transactions,
                   all_transactions, summary, tolerance, dry_run, created,
                   report>>

(* lines 124-127: a call on the budget server raises; the error is printed *)
IS_Error ==
    /\ prog = "import_v2"
    /\ \/ pc = "gate" /\ ~dry_run
       \/ pc \in {"account", "opening", "loop"}
    /\ ledger' = CloseSession(ledger)
    /\ result' = [kind |-> "returned", error |-> TRUE]
    /\ pc' = "done"
    /\ UNCHANGED callVars
    /\ UNCHANGED <<prog, pages_text, starting_balance, p, i, j, amounts,
                   description_parts, current_balance, transactions,
                   all_transactions, summary, tolerance, dry_run, created,
                   report>>

IS_Next ==
    \/ IS_DryRun
    \/ IS_Connect
    \/ IS_Account
    \/ IS_Opening
    \/ IS_Txn
    \/ IS_Commit
    \/ IS_Error

(* both importers *)
IM_Init == ID_Init \/ IS_Init

IM_Next == ID_Next \/ IS_Next

SpecImporters == IM_Init /\ [][IM_Next]_vars

(***************************************************************************)
(* import_detailed_transactions from the document on: the summary of       *)
(* process_bank_statement, the records of parse_individual_transactions,   *)
(* the balance check, and the dry run's return.                            *)
(***************************************************************************)
(* lines 129-133: process_bank_statement has returned; the pages are       *)
(* parsed from the summary's starting balance                              *)
ID_CallParser ==
    /\ caller = "import" /\ prog = "summary" /\ pc = "done"
    /\ prog' = "detailed"
    /\ pc' = "scan"
    /\ starting_balance' = summary.starting_balance
    /\ current_balance' = summary.starting_balance
    /\ p' = 1
    /\ i' = 0
    /\ result' = NoResult
    /\ UNCHANGED callVars
    /\ UNCHANGED <<pages_text, j, amounts, description_parts, transactions,
                   all_transactions, summary, tolerance, dry_run, created,
                   report, ledger>>

(* line 133: parse_individual_transactions has returned its list *)
ID_ParserReturned ==
    /\ caller = "import" /\ prog = "detailed" /\ pc = "done"
    /\ prog' = "import"
    /\ pc' = "check"
    /\ UNCHANGED callVars
    /\ UNCHANGED <<pages_text, starting_balance, p, i, j, amounts,
                   description_parts, current_balance, transactions,
                   all_transactions, result, summary, tolerance, dry_run,
                   created, report, ledger>>

(* import_detailed_transactions(pdf_path, dry_run=True), lines 120-129 *)
PL_Init ==
    /\ prog = "summary"
    /\ pc = "pages"
    /\ IsStatement(pages_text)
    /\ starting_balance = 0
    /\ p = 1 /\ i = 0 /\ j = 0
    /\ amounts = <<>>
    /\ description_parts = <<>>
    /\ current_balance = 0
    /\ transactions = <<>>
    /\ all_transactions = <<>>
    /\ result = NoResult
    /\ summary = NoSummary
    /\ tolerance = Tolerance
    /\ dry_run = TRUE
    /\ created = 0
    /\ report = "none"
    /\ ledger = NoLedger
    /\ doc = NoDoc
    /\ password = NoPassword
    /\ caller = "import"
    /\ history = <<>>
    /\ page_summary = NoPageSummary
    /\ success_count = 0
    /\ statement = 0

PL_Next ==
    \/ PS_Next
    \/ ID_CallParser
    \/ PI_Next
    \/ ID_ParserReturned
    \/ ID_Check
    \/ ID_DryRun

SpecPipeline == PL_Init /\ [][PL_Next]_vars

(***************************************************************************)
(* import_all_pdfs (import_all_statements.py), from the loop of line 52:   *)
(* every statement of PDF_ORDER is handed to import_detailed_transactions  *)
(* with dry_run=False, against the one budget file.                        *)
(***************************************************************************)
PDF_ORDER ==
    <<"may_2025.pdf", "June_2025.pdf", "aug_2025.pdf", "sep_2025.pdf",
      "oct_2025.pdf", "Nov_2025.pdf">>

(* what the text of a statement parses to: nothing, or one deposit *)
BatchTxns == { <<>>, ChainTxns(<<5045000>>, 5000000) }

(* import_all_pdfs(), lines 52-53 *)
AP_Init ==
    /\ prog = "batch"
    /\ pc = "next"
    /\ pages_text = <<>>
    /\ starting_balance = 0
    /\ p = 1 /\ i = 0 /\ j = 0
    /\ amounts = <<>>
    /\ description_parts = <<>>
    /\ current_balance = 0
    /\ transactions = <<>>
    /\ all_transactions = <<>>
    /\ result = NoResult
    /\ summary = NoSummary
    /\ tolerance = Tolerance
    /\ dry_run = FALSE
    /\ created = 0
    /\ report = "none"
    /\ \E acc \in BOOLEAN, cats \in SUBSET {"Income", "General"} :
          ledger = [session |-> "closed", account |-> acc, categories |-> cats,
                    pending |-> <<>>, committed |-> <<>>, commits |-> 0]
    /\ doc = NoDoc
    /\ password = "guru2111"
    /\ caller = "none"
    /\ history = <<>>
    /\ page_summary = NoPageSummary
    /\ success_count = 0
    /\ statement = 0

(* lines 54-61 and import_detailed.py 120-133: the next statement is read  *)
(* and parsed, import_detailed_transactions goes on to its balance check   *)
AP_Call ==
    /\ prog = "batch" /\ pc = "next"
    /\ statement < Len(PDF_ORDER)
    /\ prog' = "import"
    /\ caller' = "batch"
    /\ pc' = "check"
    /\ all_transactions' \in BatchTxns
    /\ summary' = [starting_balance |-> 5000000,
                   total_deposits |-> SumDeposits(all_transactions'),
                   total_withdrawals |-> SumWithdrawals(all_transactions'),
                   final_balance |-> IF all_transactions' = <<>> THEN 5000000
                                     ELSE Last(all_transactions').balance]
    /\ created' = 0
    /\ report' = "none"
    /\ result' = NoResult
    /\ i' = 0
    /\ UNCHANGED <<pages_text, starting_balance, p, j, amounts, description_parts,
                   current_balance, transactions, tolerance, dry_run, ledger,
                   doc, password, history, page_summary, success_count,
                   statement>>

(* lines 61-70: import_detailed_transactions raises while it reads the     *)
(* statement (import_detailed.py 129-133 are outside its try); the user is *)
(* asked whether to go on                                                  *)
AP_Raised ==
    /\ prog = "batch" /\ pc = "next"
    /\ statement < Len(PDF_ORDER)
    /\ \E response \in {"yes", "no"} :
          IF response = "yes"
          THEN statement' = statement + 1 /\ pc' = "next"
          ELSE statement' = statement /\ pc' = "summary"
    /\ UNCHANGED <<prog, pages_text, starting_balance, p, i, j, amounts,
                   description_parts, current_balance, transactions,
                   all_transactions, result, summary, tolerance, dry_run,
                   created, report, ledger, doc, password, caller, history,
                   page_summary, success_count>>

(* lines 61-62: import_detailed_transactions has returned *)
AP_Returned ==
    /\ prog = "import" /\ pc = "done"
    /\ caller = "batch"
    /\ success_count' = success_count + 1
    /\ statement' = statement + 1
    /\ prog' = "batch"
    /\ caller' = "none"
    /\ pc' = "next"
    /\ UNCHANGED <<pages_text, starting_balance, p, i, j, amounts,
                   description_parts, current_balance, transactions,
                   all_transactions, result, summary, tolerance, dry_run,
                   created, report, ledger, doc, password, history,
                   page_summary>>

(* lines 72-81: 'Successfully imported: success_count/6 PDFs' *)
AP_Summary ==
    /\ prog = "batch"
    /\ pc = "summary" \/ (pc = "next" /\ statement = Len(PDF_ORDER))
    /\ result' = [kind |-> "summary",
                  imported |-> success_count,
                  failed |-> Len(PDF_ORDER) - success_count]
    /\ pc' = "done"
    /\ UNCHANGED <<prog, pages_text, starting_balance, p, i, j, amounts,
                   description_parts, current_balance, transactions,
                   all_transactions, summary, tolerance, dry_run, created,
                   report, ledger, doc, password, caller, history,
                   page_summary, success_count, statement>>

AP_Next ==
    \/ AP_Call
    \/ AP_Raised
    \/ AP_Returned
    \/ AP_Summary
    \/ ID_Check
    \/ ID_Connect
    \/ ID_Account
    \/ ID_MissingCategory
    \/ ID_Opening
    \/ ID_Txn
    \/ ID_Commit
    \/ ID_Error

SpecBatch == AP_Init /\ [][AP_Next]_vars

(***************************************************************************)
(* Properties of the statement assemblers.                                 *)
(***************************************************************************)
(* the balance the record at position n of txns follows *)
PrevBalance(txns, n, start) == IF n = 1 THEN start ELSE txns[n - 1].balance

(* the balance the list ends at *)
LastBalance(txns, start) == IF txns = <<>> THEN start ELSE Last(txns).balance

(* the step appends a record to the list parse_individual_transactions returns *)
PI_Emitted == prog = "detailed" /\ Len(all_transactions') = Len(all_transactions) + 1

(* the step appends a record to the page list of extract_transactions_from_page_text *)
XT_Emitted == prog = "ocr" /\ Len(transactions') = Len(transactions) + 1

(* the date line at index n of lines is followed by B/F, C/F or a 'Total:' line *)
MarkerFollows(lines, n) ==
    /\ n + 1 < Len(lines)
    /\ LineAt(lines, n + 1).k \in {"BF", "CF", "Total", "TotalAmt"}

\* C4: every record parse_individual_transactions emits has the last collected
\* token as its balance, and its deposit and withdrawal are decided by
\* delta = balance - previous balance alone (the starting balance for the first
\* record): delta > 0 gives deposit = delta, withdrawal = 0; otherwise
\* deposit = 0, withdrawal = |delta|.  The first token plays no part.
C4_DeltaClassification ==
    [][PI_Emitted =>
         LET t == Last(all_transactions')
             delta == t.balance - LastBalance(all_transactions, starting_balance)
         IN  /\ all_transactions' = Append(all_transactions, t)
             /\ Len(amounts') >= 2
             /\ t.balance = Last(amounts')
             /\ IF delta > 0
                THEN t.deposit = delta /\ t.withdrawal = 0
                ELSE t.deposit = 0 /\ t.withdrawal = Abs(delta)]_vars

\* C4 witness: scenario B of spec.md: tokens 450.00, 50000.00 after a balance
\* of 50450.00 are emitted as a withdrawal of 450.00.
C4_Witness ==
    /\ prog = "detailed"
    /\ starting_balance = 5045000
    /\ amounts = <<45000, 5000000>>
    /\ Len(all_transactions) = 1
    /\ all_transactions[1].deposit = 0
    /\ all_transactions[1].withdrawal = 45000
    /\ all_transactions[1].balance = 5000000

\* C5 (as claimed): in the list of either assembler, each record's balance is
\* its predecessor's balance plus its deposit minus its withdrawal, the
\* predecessor of the first record being starting_balance.
C5_BalanceChain ==
    \A n \in 1..Len(all_transactions) :
        all_transactions[n].balance =
            PrevBalance(all_transactions, n, starting_balance)
              + all_transactions[n].deposit - all_transactions[n].withdrawal

\* C6 (as claimed): in the list of either assembler, deposit and withdrawal are
\* non-negative, at most one of them is nonzero, and both are zero only when
\* the balance did not change.
C6_OneSided ==
    \A n \in 1..Len(all_transactions) :
        LET t == all_transactions[n]
        IN  /\ t.deposit >= 0
            /\ t.withdrawal >= 0
            /\ t.deposit = 0 \/ t.withdrawal = 0
            /\ (t.deposit = 0 /\ t.withdrawal = 0) =>
                   t.balance = PrevBalance(all_transactions, n, starting_balance)

\* C7: at every point of parse_individual_transactions, on every page,
\* current_balance is the balance of the record emitted last, or
\* starting_balance if none was emitted yet.
C7_BalanceThreaded ==
    prog = "detailed" =>
        current_balance = LastBalance(all_transactions, starting_balance)

\* C7 witness: the first record of page 2 has been classified against the
\* balance the last record of page 1 left.
C7_Witness ==
    /\ prog = "detailed"
    /\ p = 2
    /\ Len(all_transactions) = 2
    /\ all_transactions[1].page = 1
    /\ all_transactions[2].page = 2
    /\ all_transactions[1].balance # starting_balance
    /\ all_transactions[2].deposit = all_transactions[2].balance - all_transactions[1].balance
    /\ all_transactions[2].deposit > 0
    /\ current_balance = all_transactions[2].balance

C9_FewerThanTwoDiscarded ==
    [][(PI_Emitted \/ XT_Emitted) => Len(amounts') >= 2]_vars

(* what a step of either text parser does about a date line that a marker *)
(* line follows                                                            *)
SectionMarkerStep ==
    prog \in {"detailed", "ocr"} =>
        LET lines == pages_text[p]
        IN  /\ (PI_Emitted \/ XT_Emitted) => ~MarkerFollows(lines, i)
            /\ (pc = "look" /\ MarkerFollows(lines, i)) =>
                  /\ prog = "ocr"
                  /\ amounts' = <<>>
                  /\ transactions' = transactions
                  /\ i' = i + 1 /\ pc' = "scan"
            /\ (/\ pc = "scan"
                /\ i < Len(lines)
                /\ IsDateLine(LineAt(lines, i))
                /\ MarkerFollows(lines, i)) =>
                  /\ all_transactions' = all_transactions
                  /\ transactions' = transactions
                  /\ IF prog = "detailed"
                     THEN i' = i + 2 /\ pc' = "scan"
                     ELSE \/ i' = i + 1 /\ pc' = "scan"
                          \/ i' = i /\ pc' = "look" /\ amounts' = <<>>

\* C10: a date line followed by B/F, C/F or a 'Total:' line never produces a
\* transaction and collects no token: parse_individual_transactions jumps
\* over both lines, and extract_transactions_from_page_text moves on to the
\* marker line with nothing emitted and nothing collected.
C10_SectionMarkerSkipped == [][SectionMarkerStep]_vars

\* C10 witness: parse_individual_transactions has passed a date line and the
\* "Total: 450.00 450.00 50,000.00" line after it, and holds no record and
\* no token.
C10_Witness ==
    /\ prog = "detailed"
    /\ pc = "scan"
    /\ p = 1
    /\ i = 2
    /\ IsDateLine(LineAt(pages_text[1], 0))
    /\ LineAt(pages_text[1], 1).k = "TotalAmt"
    /\ all_transactions = <<>>
    /\ amounts = <<>>

(* the line ends a record: a date line, a line holding 'Total:', B/F or C/F *)
EndsRecord(line) ==
    IsDateLine(line) \/ ContainsTotal(line) \/ line.k \in {"BF", "CF"}

(* a look-ahead step of parse_individual_transactions takes a token or a   *)
(* description fragment only from a line that does not end the record      *)
LookAheadStep ==
    (/\ prog = "detailed"
     /\ pc = "look"
     /\ amounts' # amounts \/ description_parts' # description_parts)
    => /\ j < Len(pages_text[p])
       /\ ~EndsRecord(LineAt(pages_text[p], j))

\* C11 (as claimed): the look-ahead of parse_individual_transactions stops at
\* the first date line, line holding 'Total:', B/F or C/F line: no token and
\* no description fragment of such a line is attributed to the record.
C11_LookAheadStops == [][LookAheadStep]_vars

(***************************************************************************)
(* Properties of the opening balance and the statement summary.            *)
(***************************************************************************)
(* line idx of lines is a B/F line and line idx + jj, one of the four      *)
(* after it, has a first thousands-separated amount above floor            *)
Acceptable(lines, idx, jj, floor) ==
    /\ LineAt(lines, idx).k = "BF"
    /\ idx + jj < Len(lines)
    /\ \E n \in 1..Len(LineAt(lines, idx + jj).a) :
          /\ LineAt(lines, idx + jj).a[n].sep
          /\ \A m \in 1..(n - 1) : ~LineAt(lines, idx + jj).a[m].sep
          /\ LineAt(lines, idx + jj).a[n].v > floor

(* the amount the line idx + jj offers: its first thousands-separated one *)
Offered(lines, idx, jj) ==
    LET toks == LineAt(lines, idx + jj).a
    IN  toks[CHOOSE n \in 1..Len(toks) :
                 toks[n].sep /\ \A m \in 1..(n - 1) : ~toks[m].sep].v

(* page 1 offers no amount above floor after a B/F line *)
NothingAcceptable(lines, floor) ==
    \A idx \in 0..(Len(lines) - 1) : \A jj \in 1..4 : ~Acceptable(lines, idx, jj, floor)

(* s is what the first acceptable line after the first B/F line that has   *)
(* one offers, or 0 when page 1 has no acceptable line                     *)
IsOpeningAmount(lines, s, floor) ==
    /\ s = 0 \/ s > floor
    /\ s = 0 <=> NothingAcceptable(lines, floor)
    /\ s # 0 =>
          \E idx \in 0..(Len(lines) - 1) : \E jj \in 1..4 :
              /\ Acceptable(lines, idx, jj, floor)
              /\ s = Offered(lines, idx, jj)
              /\ \A idx2 \in 0..(Len(lines) - 1) : \A jj2 \in 1..4 :
                    (idx2 < idx \/ (idx2 = idx /\ jj2 < jj))
                        => ~Acceptable(lines, idx2, jj2, floor)

ReportedStart ==
    IF prog = "summary" THEN result.value.starting_balance ELSE result.starting_balance

\* C13 (as claimed): when page 1 offers no acceptable amount after a 'B/F'
\* line, the starting_balance either routine reports is 0, whatever the page
\* totals and the final balance are.
C13_NoMarkerGivesZero ==
    (/\ prog \in {"summary", "ocr"}
     /\ pc = "done"
     /\ NothingAcceptable(pages_text[1], IF prog = "summary" THEN 10000000 ELSE 1000000))
    => ReportedStart = 0

(* the four figures of the returned summary reconcile to within 0.01 *)
Reconciles(sm) ==
    Abs(sm.starting_balance + sm.total_deposits - sm.total_withdrawals
          - sm.final_balance) <= 1

C15_AuthenticationOrPages ==
    (prog = "text" /\ pc = "done") =>
        LET locked == /\ doc.encrypted
                      /\ \/ password = NoPassword
                         \/ password = ""
                         \/ password # doc.key
        IN  /\ result.kind \in {"raised", "returned"}
            /\ result.kind = "raised" <=> locked
            /\ result.kind = "raised" =>
                  /\ "value" \notin DOMAIN result
                  /\ pages_text = <<>>
                  /\ result.error.args = <<"PDF is encrypted and requires authentication">>
            /\ result.kind = "returned" =>
                  /\ Len(result.value) = Len(doc.pages)
                  /\ \A n \in 1..Len(doc.pages) : result.value[n] = doc.pages[n]

\* C15 witness: a wrong password on an encrypted two-page document ended in
\* the error.
C15_Witness ==
    /\ prog = "text"
    /\ pc = "done"
    /\ doc.encrypted
    /\ Len(doc.pages) = 2
    /\ doc.pages[1] # doc.pages[2]
    /\ password = "wrong"
    /\ result.kind = "raised"

\* C16 (as claimed): on every exit of extract_text_from_pdf, the return and
\* the authentication error alike, the document handle it opened is closed.
C16_HandleReleased ==
    (prog = "text" /\ pc = "done") => doc.handle = "closed"

(* import_detailed_transactions ended with its completion message *)
ImportSucceeded ==
    /\ prog = "import"
    /\ pc = "done"
    /\ ~dry_run
    /\ ledger.commits = 1

(* the amount of the ledger record of a transaction *)
SignedAmount(t) == IF t.deposit > 0 THEN t.deposit ELSE -t.withdrawal

(* the transactions of txns with a nonzero deposit or withdrawal, in order *)
Moving(txns) == SelectSeq(txns, LAMBDA t : t.deposit > 0 \/ t.withdrawal > 0)

(* the ledger starts with the opening-balance record, without a category *)
OpeningFirst ==
    /\ Len(ledger.committed) >= 1
    /\ ledger.committed[1].payee = "Opening Balance"
    /\ ledger.committed[1].amount = summary.starting_balance
    /\ ledger.committed[1].category = "none"
    /\ \A n \in 2..Len(ledger.committed) : ledger.committed[n].payee # "Opening Balance"

CommitStep ==
    prog = "import" =>
        /\ ledger'.commits # ledger.commits =>
              /\ ledger.commits = 0
              /\ ledger'.commits = 1
              /\ pc = "loop"
              /\ i = Len(all_transactions)
              /\ Len(ledger.pending) = Len(Moving(all_transactions)) + 1
              /\ ledger.pending[1].payee = "Opening Balance"
              /\ ledger'.committed = ledger.pending
              /\ pc' = "done"
        /\ (pc' = "done" /\ pc # "done" /\ result'.error) =>
              /\ ledger'.commits = 0
              /\ ledger'.committed = <<>>
        /\ pc = "done" => ledger' = ledger

\* C18: in one import_detailed_transactions call the commit happens at most
\* once, as the last step, when the opening-balance record and the record of
\* every transaction of the list have been created; a call that ends in an
\* error has not committed, and nothing is committed after the call ended.
C18_SingleCommitAtEnd == [][CommitStep]_vars

\* C18 witness: a call committed three records at once.
C18_Witness ==
    /\ prog = "import"
    /\ pc = "done"
    /\ ledger.commits = 1
    /\ Len(ledger.committed) = 3
    /\ created = 3

(* a step of a dry run leaves the budget file as it is *)
DryRunStep ==
    (prog \in {"import", "import_v2"} /\ dry_run) =>
        /\ ledger' = ledger
        /\ ledger.session = "closed"
        /\ ledger.pending = <<>>
        /\ ledger.commits = 0

\* C19: with dry_run=True neither import_detailed_transactions nor
\* import_to_actualbudget opens a ledger session, creates an account or a
\* record, or commits: the budget file stays as it was, whatever the list.
C19_DryRunLeavesLedger == [][DryRunStep]_vars

\* C19 witness: a dry run of import_detailed_transactions over two
\* transactions has returned.
C19_Witness ==
    /\ prog = "import"
    /\ dry_run
    /\ pc = "done"
    /\ result.kind = "returned"
    /\ Len(all_transactions) = 2
    /\ ledger.session = "closed"
    /\ ledger.committed = <<>>

(* the opening balance the statement's own figures imply *)
ImpliedOpening(sm) == sm.final_balance - sm.total_deposits + sm.total_withdrawals

\* C14 (as claimed): when page 1 offers no acceptable brought-forward amount,
\* the statement's opening balance exceeds the tolerance and at least one
\* transaction was parsed, the reconciliation of import_detailed_transactions
\* fails: the balance check warns and verify_pdf_extraction_is_correct does
\* not pass.
C14_MissingOpeningFails ==
    (/\ caller = "import"
     /\ prog = "import"
     /\ pc \in {"gate", "done"}
     /\ NothingAcceptable(pages_text[1], 10000000)
     /\ ImpliedOpening(summary) > 100
     /\ Len(all_transactions) >= 1)
    => /\ report = "warning"
       /\ ~VP_Results(summary, all_transactions, Tolerance).passed

\* C1 (as claimed): when the balance check of a non-dry-run
\* import_detailed_transactions fails, no ledger record is created and
\* nothing is committed.
C1_FailedCheckStopsImport ==
    (/\ prog = "import"
     /\ ~dry_run
     /\ Abs(summary.starting_balance + SumDeposits(all_transactions)
              - SumWithdrawals(all_transactions) - summary.final_balance) > 100)
    => /\ ledger.pending = <<>>
       /\ ledger.committed = <<>>
       /\ ledger.commits = 0

\* C2: verify_pdf_extraction_is_correct returns, with passed = TRUE, exactly
\* when the balance, deposit and withdrawal differences are all within the
\* tolerance; in every other case it raises.
C2_PassedIffAllWithin ==
    (prog = "verify" /\ pc = "done") =>
        LET deps == SumDeposits(all_transactions)
            wds == SumWithdrawals(all_transactions)
            within ==
                /\ Abs(summary.starting_balance + deps - wds
                         - summary.final_balance) <= tolerance
                /\ Abs(deps - summary.total_deposits) <= tolerance
                /\ Abs(wds - summary.total_withdrawals) <= tolerance
        IN  /\ result.kind \in {"returned", "raised"}
            /\ result.kind = "returned" <=> within
            /\ result.kind = "returned" => result.value.passed = TRUE

\* C2 witness: a call returned with the balance difference exactly at the
\* default tolerance.
C2_Witness ==
    /\ prog = "verify"
    /\ pc = "done"
    /\ tolerance = 100
    /\ result.kind = "returned"
    /\ result.value.balance_diff = 100

\* C3 (as claimed): the error raised by a failed verification carries the
\* three differences and both operands of each comparison as data.
C3_ErrorCarriesDiffs ==
    (prog = "verify" /\ pc = "done" /\ result.kind = "raised") =>
        LET deps == SumDeposits(all_transactions)
            wds == SumWithdrawals(all_transactions)
            calc == summary.starting_balance + deps - wds
        IN  /\ {"balance_diff", "deposit_diff", "withdrawal_diff",
                "calc_final", "calc_deposits", "calc_withdrawals",
                "final_balance", "total_deposits", "total_withdrawals"}
                  \subseteq DOMAIN result.error
            /\ result.error.balance_diff = Abs(calc - summary.final_balance)
            /\ result.error.deposit_diff = Abs(deps - summary.total_deposits)
            /\ result.error.withdrawal_diff = Abs(wds - summary.total_withdrawals)

(***************************************************************************)
(* The two consumers of the transaction list: the verifier and the         *)
(* importer, each on its own arguments.                                    *)
(***************************************************************************)
CN_Init == VP_Init \/ ID_Init

CN_Next == VP_Next \/ ID_Next

SpecConsumers == CN_Init /\ [][CN_Next]_vars

(* a step of a consumer leaves the list as it was *)
ConsumerStep ==
    prog \in {"verify", "import"} => all_transactions' = all_transactions

\* C22: no step of verify_pdf_extraction_is_correct or of
\* import_detailed_transactions changes the transaction list it was given:
\* the list and every field of every record are the same after the step,
\* whether the check passes or fails and whether the import commits or not.
C22_ListUntouched ==
    [][ConsumerStep]_vars

(* an import of a deposit and a withdrawal has committed *)
C22_Witness ==
    /\ prog = "import" /\ pc = "done"
    /\ ledger.commits = 1
    /\ Len(all_transactions) = 2
    /\ all_transactions[1].deposit > 0
    /\ all_transactions[2].withdrawal > 0

(***************************************************************************)
(* parse_individual_transactions, run twice                                *)
(***************************************************************************)
\* C21: a second run of parse_individual_transactions on the same pages and
\* the same starting balance returns the list the first run returned: the
\* result depends on the arguments only, nothing of the first run is seen
\* by the second.
C21_SecondRunAgrees ==
    (prog = "detailed" /\ pc = "done" /\ history # <<>>)
        => result = history[1]

(* a second run has returned two records from two pages, as the first did  *)
C21_Witness ==
    /\ prog = "detailed" /\ pc = "done" /\ history # <<>>
    /\ Len(result.transactions) = 2
    /\ result.transactions[1].page = 1
    /\ result.transactions[2].page = 2
    /\ starting_balance # 0

(***************************************************************************)
(* The records the assemblers hand to the importers                        *)
(***************************************************************************)
(* the keys an importer reads: txn_data['date'] ... txn_data['page'] *)
SixFields == {"date", "description", "deposit", "withdrawal", "balance", "page"}

(* page page_num of the document has a line that starts with date_str *)
HoldsDateLine(page_num, date_str) ==
    /\ page_num \in 1..Len(pages_text)
    /\ \E n \in 1..Len(pages_text[page_num]) :
          IsDateLine(pages_text[page_num][n]) /\ pages_text[page_num][n].d = date_str

\* C23: every record parse_individual_transactions or
\* extract_all_transactions_from_pdf has put on the list it returns carries
\* the six fields date, description, deposit, withdrawal, balance and page,
\* page being the 1-based number of the page that holds the record's date line.
C23_SixFields ==
    prog \in {"detailed", "ocr"} =>
        \A n \in 1..Len(all_transactions) :
            /\ DOMAIN all_transactions[n] = SixFields
            /\ HoldsDateLine(all_transactions[n].page, all_transactions[n].date)

(***************************************************************************)
(* extract_all_transactions_from_pdf and the summarizer                    *)
(***************************************************************************)
\* C24: what extract_all_transactions_from_pdf returns (the transactions,
\* the starting balance, the totals and the final balance) does not depend
\* on what the summarizer answered: a second run on the same document, with
\* the summarizer answering anything for every page, returns what the first
\* run returned.
C24_SummarizerIgnored ==
    (prog = "ocr" /\ pc = "done" /\ history # <<>>)
        => result = history[1]

(* two runs on a two-page document have returned the same record although  *)
(* the summarizer reported a balance for the last page in one run and      *)
(* zeros (its answer on any failure) in the other                          *)
C24_Witness ==
    /\ prog = "ocr" /\ pc = "done" /\ history # <<>>
    /\ Len(pages_text) = 2
    /\ Len(result.transactions) >= 1
    /\ page_summary = [deposits |-> 0, withdrawals |-> 0, balance |-> 0]
    /\ result.final_balance # 0

(***************************************************************************)
(* The look-ahead window of parse_individual_transactions                  *)
(***************************************************************************)
(* a step of the look-ahead for the date line at index i *)
WindowStep ==
    (prog = "detailed" /\ pc = "look")
    => /\ j <= i + 10
       /\ (amounts' # amounts \/ description_parts' # description_parts)
             => (j >= i + 1 /\ j <= i + 9)
       /\ (j = i + 10 /\ Len(amounts) < 2)
             => /\ all_transactions' = all_transactions
                /\ current_balance' = current_balance
                /\ pc' = "scan"
                /\ i' = i + 10

\* C25: the look-ahead opened by the date line at index i reads lines
\* i+1 .. i+9 only: a token or a description fragment is taken from no other
\* line; when the look-ahead arrives at index i+10 with fewer than two
\* tokens, the candidate is discarded (no record, running balance kept) and
\* the scan resumes at line i+10.
C25_WindowBounded == [][WindowStep]_vars

(* a candidate with one token, read on line i+9, was discarded at the       *)
(* ceiling and the scan is back at line i+10, which holds an amount         *)
C25_Witness ==
    /\ prog = "detailed" /\ pc = "scan"
    /\ p = 1 /\ i = 10 /\ j = 10
    /\ Len(pages_text[1]) > 10
    /\ IsDateLine(LineAt(pages_text[1], 0))
    /\ FoundAmounts(LineAt(pages_text[1], 9)) # <<>>
    /\ FoundAmounts(LineAt(pages_text[1], 10)) # <<>>
    /\ Len(amounts) = 1
    /\ all_transactions = <<>>

(***************************************************************************)
(* Termination of parse_individual_transactions                            *)
(***************************************************************************)
(* a step of the scan moves forward: by two over a date line and its       *)
(* marker, by one over any other line it does not open, to an index behind *)
(* the date line when a look-ahead ends, to the next page only from the    *)
(* end of a page; a step of the look-ahead moves j forward                 *)
IndexStep ==
    prog = "detailed" =>
        /\ (pc = "scan" /\ pc' = "scan" /\ p' = p)
              => /\ i < Len(pages_text[p])
                 /\ i' = IF PI_IsSectionMarker(pages_text[p], i)
                               /\ IsDateLine(LineAt(pages_text[p], i))
                          THEN i + 2 ELSE i + 1
        /\ (pc = "look" /\ pc' = "look") => (j' = j + 1 /\ i' = i /\ p' = p)
        /\ (pc = "look" /\ pc' = "scan") => (i' > i /\ p' = p)
        /\ p' # p => (p' = p + 1 /\ i >= Len(pages_text[p]) /\ i' = 0)
        /\ i' <= Len(pages_text[p']) + 1

\* C26: parse_individual_transactions returns on every document: every
\* iteration of the scan strictly increases the line index (by two over a
\* date line and its marker, by one over a line it does not open, to an
\* index greater than the date line at the end of a look-ahead), pages are
\* taken in order, and the end of the last page is reached.
C26_Terminates == [][IndexStep]_vars /\ <>(pc = "done")

(* the routine has returned from a document on which it skipped a date     *)
(* line with its marker and emitted a record                               *)
C26_Witness ==
    /\ prog = "detailed" /\ pc = "done"
    /\ Len(all_transactions) >= 1
    /\ i >= Len(pages_text[p])
    /\ \E q \in 1..Len(pages_text) : \E n \in 0..(Len(pages_text[q]) - 2) :
          IsDateLine(LineAt(pages_text[q], n)) /\ PI_IsSectionMarker(pages_text[q], n)

(***************************************************************************)
(* Date lines and records of parse_individual_transactions                 *)
(***************************************************************************)
(* the date lines the scan has passed when it stands at line n of page q *)
DateLinesBefore(q, n) ==
    { pos \in UNION { {<<r, m>> : m \in 0..(Len(pages_text[r]) - 1)} : r \in 1..q } :
        /\ IsDateLine(LineAt(pages_text[pos[1]], pos[2]))
        /\ pos[1] < q \/ pos[2] < n }

(* a step of the routine, seen from its date lines *)
OpenerStep ==
    prog = "detailed" =>
        /\ p' = p => /\ i' >= i
                     /\ \A n \in (i + 1)..(i' - 1) :
                           n < Len(pages_text[p]) => ~IsDateLine(LineAt(pages_text[p], n))
        /\ p' # p => i >= Len(pages_text[p])
        /\ (/\ pc = "scan" /\ pc' = "scan" /\ i' # i /\ p' = p
            /\ IsDateLine(LineAt(pages_text[p], i)))
              => PI_IsSectionMarker(pages_text[p], i)
        /\ all_transactions' # all_transactions
              => /\ pc = "look" /\ pc' = "scan"
                 /\ Len(all_transactions') = Len(all_transactions) + 1
                 /\ Last(all_transactions').date = LineAt(pages_text[p], i).d
                 /\ Last(all_transactions').page = p
        /\ Len(all_transactions') <= Cardinality(DateLinesBefore(p', i'))

C28_MissingCategoryCreatesNothing ==
    (/\ prog = "import"
     /\ ~dry_run
     /\ ~({"Income", "General"} \subseteq ledger.categories))
    => /\ ledger.pending = <<>>
       /\ ledger.committed = <<>>
       /\ ledger.commits = 0
       /\ created = 0

(* the import of a non-empty list has returned from a budget that has       *)
(* 'Income' but not 'General': the session is closed, nothing was written   *)
C28_Witness ==
    /\ prog = "import" /\ pc = "done"
    /\ ~dry_run
    /\ ledger.categories = {"Income"}
    /\ ledger.account
    /\ ledger.session = "closed"
    /\ all_transactions # <<>>
    /\ result = [kind |-> "returned", error |-> TRUE]
    /\ ledger.committed = <<>>

(***************************************************************************)
(* import_all_pdfs                                                         *)
(***************************************************************************)
\* C29: between two statements and in its summary, the success_count of
\* import_all_pdfs is the number of statements whose transactions were
\* committed to the budget: a statement whose import ended without a commit
\* is not counted.
C29_SuccessCountIsCommitted ==
    prog = "batch" => success_count = ledger.commits

(***************************************************************************)
(* The two opening-balance discoveries                                     *)
(***************************************************************************)
\* C30: on the same page 1, extract_all_transactions_from_pdf and
\* process_bank_statement accept the same brought-forward amount, or both
\* none: what either routine holds after page 1 is what the other's
\* discovery gives on that page.
C30_DiscoveriesAgree ==
    /\ (prog = "ocr" /\ pc # "start") =>
          starting_balance = PS_StartingBalance(pages_text[1])
    /\ (prog = "summary" /\ pc = "pages" /\ p > 1) =>
          summary.starting_balance = EA_StartingBalance(pages_text[1])

====
